---- MODULE Spec2Model ----
(***************************************************************************)
(* GSH_Vulkan::CDraw (Source/gs/GSH_Vulkan/GSH_VulkanDraw.cpp): the draw   *)
(* orchestrator of the Vulkan GS handler.  The model covers the committed  *)
(* draw state and its nine setters, the vertex batch cursors, the pipeline *)
(* and descriptor-set caches, FlushVertices and the frame hooks.  Vulkan   *)
(* calls are recorded as a command log of the operation that issued them.  *)
(***************************************************************************)
EXTENDS Integers, Sequences, FiniteSets, TLC

(***************************************************************************)
(* Bounds of the model.                                                    *)
(***************************************************************************)
\* MAX_VERTEX_COUNT is 1024 * 128 in the source; the model scales it down.
\* Like the source value it is congruent to 2 modulo 3.
MaxVertexBound == 8

(***************************************************************************)
(* Program constants.                                                      *)
(***************************************************************************)
DRAW_AREA_SIZE == 1024

MAX_VERTEX_COUNT == MaxVertexBound

\* sizeof(PRIM_VERTEX): x, y (float), z (uint32), color (uint32), s, t, q (float)
SizeofPrimVertex == 28

\* number of frame slots of the frame command buffer (m_frames)
MAX_FRAMES == 2

\* CGSHandler pixel storage formats
PSMCT32 == 0
PSMCT24 == 1
PSMCT16 == 2
PSMCT16S == 10
PSMT8 == 19
PSMT4 == 20
PSMT8H == 27
PSMT4HL == 36
PSMT4HH == 44
PSMZ32 == 48
PSMZ24 == 49
PSMZ16 == 50
PSMZ16S == 58

\* CGSHandler: the alpha test functions
ALPHA_TEST_NEVER == 0
ALPHA_TEST_ALWAYS == 1
ALPHA_TEST_EQUAL == 4
ALPHA_TEST_GEQUAL == 5

\* CGSHandler: the depth test functions
DEPTH_TEST_NEVER == 0
DEPTH_TEST_ALWAYS == 1
DEPTH_TEST_GEQUAL == 2
DEPTH_TEST_GREATER == 3

\* CGSHandler: the selectors of the blending terms
ALPHABLEND_ABD_CS == 0
ALPHABLEND_ABD_CD == 1
ALPHABLEND_ABD_ZERO == 2
ALPHABLEND_C_AS == 0
ALPHABLEND_C_AD == 1
ALPHABLEND_C_FIX == 2

\* CGSHandler: the texture functions and the clamp modes
TEX0_FUNCTION_MODULATE == 0
TEX0_FUNCTION_DECAL == 1
TEX0_FUNCTION_HIGHLIGHT2 == 3
CLAMP_MODE_REPEAT == 0
CLAMP_MODE_CLAMP == 1
CLAMP_MODE_REGION_CLAMP == 2
CLAMP_MODE_REGION_REPEAT == 3

DESCRIPTOR_LOCATION_BUFFER_MEMORY == 0
DESCRIPTOR_LOCATION_IMAGE_CLUT == 1
DESCRIPTOR_LOCATION_IMAGE_SWIZZLETABLE_TEX == 2
DESCRIPTOR_LOCATION_IMAGE_SWIZZLETABLE_FB == 3
DESCRIPTOR_LOCATION_IMAGE_SWIZZLETABLE_DEPTH == 4

(***************************************************************************)
(* PIPELINE_CAPS and DESCRIPTORSET_CAPS.                                   *)
(***************************************************************************)
\* m_pipelineCaps <<= 0 in the constructor
ZeroCaps ==
    [hasTexture |-> 0, textureHasAlpha |-> 0, textureBlackIsTransparent |-> 0,
     textureFunction |-> 0, texClampU |-> 0, texClampV |-> 0,
     textureFormat |-> 0, clutFormat |-> 0,
     framebufferFormat |-> 0, depthbufferFormat |-> 0,
     hasAlphaBlending |-> 0, alphaA |-> 0, alphaB |-> 0, alphaC |-> 0,
     alphaD |-> 0, depthTestFunction |-> 0, alphaTestFunction |-> 0,
     maskColor |-> 0, writeDepth |-> 0]

\* The capability descriptors the callers commit: the initial one and an
\* untextured one under two alpha test functions (two descriptors sharing a
\* descriptor-set key).
MakeCaps(hasTexture, textureFormat, alphaTestFunction) ==
    [ZeroCaps EXCEPT !.hasTexture = hasTexture,
                     !.textureFormat = textureFormat,
                     !.framebufferFormat = PSMCT32,
                     !.depthbufferFormat = PSMZ32,
                     !.alphaTestFunction = alphaTestFunction]

CapsInputs ==
    {ZeroCaps,
     MakeCaps(0, PSMCT32, ALPHA_TEST_ALWAYS),
     MakeCaps(0, PSMCT32, ALPHA_TEST_GEQUAL)}

\* Capability descriptors with and without a texture, of a direct and of an
\* indexed texture format; the last two share a descriptor-set key.
TexturedCapsInputs ==
    {MakeCaps(0, PSMCT32, ALPHA_TEST_ALWAYS),
     MakeCaps(1, PSMCT32, ALPHA_TEST_ALWAYS),
     MakeCaps(1, PSMT8, ALPHA_TEST_ALWAYS),
     MakeCaps(1, PSMT8, ALPHA_TEST_GEQUAL)}

\* static_cast<uint64>(caps): the bitfield read as one 64-bit integer, given
\* as its low and its high 32-bit word
CapsToUint64(caps) ==
    <<caps.hasTexture
      + 2 * caps.textureFormat
      + 128 * caps.framebufferFormat
      + 8192 * caps.depthbufferFormat
      + 524288 * caps.alphaTestFunction,
      caps.textureHasAlpha
      + 2 * caps.textureBlackIsTransparent
      + 4 * caps.textureFunction
      + 16 * caps.texClampU
      + 64 * caps.texClampV
      + 256 * caps.clutFormat
      + 16384 * caps.hasAlphaBlending
      + 32768 * caps.alphaA
      + 131072 * caps.alphaB
      + 524288 * caps.alphaC
      + 2097152 * caps.alphaD
      + 8388608 * caps.depthTestFunction
      + 33554432 * caps.maskColor
      + 67108864 * caps.writeDepth>>

\* CGsPixelFormats::IsPsmIDTEX
IsPsmIDTEX(psm) == psm \in {PSMT8, PSMT4, PSMT8H, PSMT4HL, PSMT4HH}

\* CGsPixelFormats::IsPsmIDTEX8
IsPsmIDTEX8(psm) == psm \in {PSMT8, PSMT8H}

\* a key that leaves the texture format out
DescriptorSetCapsOf_NoTextureFormat(caps) ==
    [hasTexture |-> caps.hasTexture,
     framebufferFormat |-> caps.framebufferFormat,
     depthbufferFormat |-> caps.depthbufferFormat,
     textureFormat |-> 0]

\* the DESCRIPTORSET_CAPS FlushVertices derives from m_pipelineCaps
DescriptorSetCapsOf(caps) ==
    [hasTexture |-> caps.hasTexture,
     framebufferFormat |-> caps.framebufferFormat,
     depthbufferFormat |-> caps.depthbufferFormat,
     textureFormat |-> caps.textureFormat]

(***************************************************************************)
(* The shader synthesiser.  A generated program is a sequence of            *)
(* instructions; asserts holds the assertions of the generator that the    *)
(* capability descriptor violates.  An assert(false) under a default label *)
(* is followed by the code of the label after it, as in the source.        *)
(***************************************************************************)
Gen(asserts, code) == [asserts |-> asserts, code |-> code]

Then(a, b) == Gen(a.asserts \cup b.asserts, a.code \o b.code)

Instr(name, arg) == [op |-> name, arg |-> arg, cond |-> "always"]

\* an instruction between BeginIf(b, depthTestResult) and EndIf(b)
IfDepthTest(instr) == [instr EXCEPT !.cond = "depthTestResult"]

GetDepth(depthFormat) ==
    CASE depthFormat = PSMZ32 ->
             Gen({}, <<Instr("GetDepth", "Memory_Read32")>>)
      [] depthFormat = PSMZ24 ->
             Gen({}, <<Instr("GetDepth", "Memory_Read24")>>)
      [] depthFormat \in {PSMZ16, PSMZ16S} ->
             Gen({}, <<Instr("GetDepth", "Memory_Read16")>>)
      [] OTHER ->
             Gen({"GetDepth"}, <<Instr("GetDepth", "Memory_Read32")>>)

ClampTexCoord(clampMode, axis) ==
    CASE clampMode = CLAMP_MODE_REPEAT ->
             Gen({}, <<Instr("ClampTexCoord", <<axis, CLAMP_MODE_REPEAT>>)>>)
      [] clampMode = CLAMP_MODE_CLAMP ->
             Gen({}, <<Instr("ClampTexCoord", <<axis, CLAMP_MODE_CLAMP>>)>>)
      [] clampMode = CLAMP_MODE_REGION_CLAMP ->
             Gen({}, <<Instr("ClampTexCoord",
                             <<axis, CLAMP_MODE_REGION_CLAMP>>)>>)
      [] clampMode = CLAMP_MODE_REGION_REPEAT ->
             Gen({}, <<Instr("ClampTexCoord",
                             <<axis, CLAMP_MODE_REGION_REPEAT>>)>>)
      [] OTHER ->
             Gen({"ClampTexCoord"},
                 <<Instr("ClampTexCoord", <<axis, CLAMP_MODE_REPEAT>>)>>)

GetClutColor(textureFormat, clutFormat) ==
    LET idx8 == IsPsmIDTEX8(textureFormat)
        lookup == Instr("GetClutColor", idx8)
    IN  Gen((IF IsPsmIDTEX(textureFormat) THEN {} ELSE {"GetClutColor"})
            \cup (IF clutFormat \in {PSMCT32, PSMCT24}
                  THEN {} ELSE {"GetClutColor"}),
            <<lookup>>)

GetTextureColor(textureFormat, clutFormat) ==
    CASE textureFormat = PSMCT32 ->
             Gen({}, <<Instr("GetTextureColor", "Memory_Read32")>>)
      [] textureFormat = PSMCT24 ->
             Gen({}, <<Instr("GetTextureColor", "Memory_Read24")>>)
      [] textureFormat = PSMCT16S ->
             Gen({}, <<Instr("GetTextureColor", "Memory_Read16")>>)
      [] textureFormat \in {PSMT8, PSMT8H} ->
             Then(Gen({}, <<Instr("GetTexturePixel", "Memory_Read8")>>),
                  GetClutColor(textureFormat, clutFormat))
      [] textureFormat \in {PSMT4, PSMT4HL, PSMT4HH} ->
             Then(Gen({}, <<Instr("GetTexturePixel", "Memory_Read4")>>),
                  GetClutColor(textureFormat, clutFormat))
      [] OTHER ->
             Gen({"GetTextureColor"},
                 <<Instr("GetTextureColor", "Memory_Read32")>>)

ExpandAlpha(textureFormat, clutFormat, texBlackIsTransparent) ==
    LET requiresExpansion ==
            IF IsPsmIDTEX(textureFormat)
            THEN clutFormat \in {PSMCT16, PSMCT16S}
            ELSE textureFormat \in {PSMCT24, PSMCT16, PSMCT16S}
    IN  IF ~requiresExpansion
        THEN Gen({}, <<>>)
        ELSE Gen({}, <<Instr("ExpandAlpha", texBlackIsTransparent # 0)>>)

GetAlphaABD(alphaABD) ==
    IF alphaABD \in {ALPHABLEND_ABD_CS, ALPHABLEND_ABD_CD, ALPHABLEND_ABD_ZERO}
    THEN Gen({}, <<alphaABD>>)
    ELSE Gen({"GetAlphaABD"}, <<ALPHABLEND_ABD_CS>>)

GetAlphaC(alphaC) ==
    IF alphaC \in {ALPHABLEND_C_AS, ALPHABLEND_C_AD, ALPHABLEND_C_FIX}
    THEN Gen({}, <<alphaC>>)
    ELSE Gen({"GetAlphaC"}, <<ALPHABLEND_C_AS>>)

WriteToFramebuffer(framebufferFormat) ==
    CASE framebufferFormat = PSMCT32 ->
             Gen({}, <<Instr("WriteToFramebuffer", "Memory_Write32")>>)
      [] framebufferFormat = PSMCT24 ->
             Gen({}, <<Instr("WriteToFramebuffer", "Memory_Write24")>>)
      [] framebufferFormat \in {PSMCT16, PSMCT16S} ->
             Gen({}, <<Instr("WriteToFramebuffer", "Memory_Write16")>>)
      [] OTHER ->
             Gen({"WriteToFramebuffer"},
                 <<Instr("WriteToFramebuffer", "Memory_Write32")>>)

\* here the default label comes last and ends with a break
WriteToDepthbuffer(depthbufferFormat) ==
    CASE depthbufferFormat = PSMZ32 ->
             Gen({}, <<Instr("WriteToDepthbuffer", "Memory_Write32")>>)
      [] depthbufferFormat = PSMZ24 ->
             Gen({}, <<Instr("WriteToDepthbuffer", "Memory_Write24")>>)
      [] depthbufferFormat \in {PSMZ16, PSMZ16S} ->
             Gen({}, <<Instr("WriteToDepthbuffer", "Memory_Write16")>>)
      [] OTHER -> Gen({"WriteToDepthbuffer"}, <<>>)

\* lines 980-1033: the colour of the texture stage
TextureStage(caps) ==
    IF caps.hasTexture # 0
    THEN LET sample ==
                 Then(Gen({}, <<Instr("TexelPos", <<>>)>>),
                 Then(ClampTexCoord(caps.texClampU, 1),
                 Then(ClampTexCoord(caps.texClampV, 2),
                      GetTextureColor(caps.textureFormat, caps.clutFormat))))
             expand ==
                 IF caps.textureHasAlpha # 0
                 THEN ExpandAlpha(caps.textureFormat, caps.clutFormat,
                                  caps.textureBlackIsTransparent)
                 ELSE Gen({}, <<>>)
             function ==
                 CASE caps.textureFunction = TEX0_FUNCTION_MODULATE ->
                          Gen({}, <<Instr("TextureFunction",
                                          <<TEX0_FUNCTION_MODULATE,
                                            caps.textureHasAlpha # 0>>)>>)
                   [] caps.textureFunction = TEX0_FUNCTION_DECAL ->
                          Gen({}, <<>>)
                   [] caps.textureFunction = TEX0_FUNCTION_HIGHLIGHT2 ->
                          Gen({}, <<Instr("TextureFunction",
                                          <<TEX0_FUNCTION_HIGHLIGHT2,
                                            caps.textureHasAlpha # 0>>)>>)
                   [] OTHER -> Gen({"textureFunction"}, <<>>)
         IN  Then(sample, Then(expand, function))
    ELSE Gen({}, <<Instr("InputColor", <<>>)>>)

\* the case of the equal function without its break
AlphaTestStage_MissingBreak(caps) ==
    CASE caps.alphaTestFunction = ALPHA_TEST_ALWAYS ->
             Gen({}, <<Instr("AlphaTest", ALPHA_TEST_ALWAYS)>>)
      [] caps.alphaTestFunction \in {ALPHA_TEST_EQUAL, ALPHA_TEST_GEQUAL} ->
             Gen({}, <<Instr("AlphaTest", ALPHA_TEST_GEQUAL)>>)
      [] OTHER ->
             Gen({"alphaTestFunction"},
                 <<Instr("AlphaTest", ALPHA_TEST_ALWAYS)>>)

\* lines 1035-1053
AlphaTestStage(caps) ==
    CASE caps.alphaTestFunction = ALPHA_TEST_ALWAYS ->
             Gen({}, <<Instr("AlphaTest", ALPHA_TEST_ALWAYS)>>)
      [] caps.alphaTestFunction = ALPHA_TEST_EQUAL ->
             Gen({}, <<Instr("AlphaTest", ALPHA_TEST_EQUAL)>>)
      [] caps.alphaTestFunction = ALPHA_TEST_GEQUAL ->
             Gen({}, <<Instr("AlphaTest", ALPHA_TEST_GEQUAL)>>)
      [] OTHER ->
             Gen({"alphaTestFunction"},
                 <<Instr("AlphaTest", ALPHA_TEST_ALWAYS)>>)

\* lines 1055-1091: the addresses of the framebuffer and depthbuffer pixels
AddressStage(caps) ==
    LET fb == CASE caps.framebufferFormat \in {PSMCT32, PSMCT24} ->
                       Gen({}, <<Instr("fbAddress", "STORAGEPSMCT32")>>)
                [] caps.framebufferFormat \in {PSMCT16, PSMCT16S} ->
                       Gen({}, <<Instr("fbAddress", "STORAGEPSMCT16")>>)
                [] OTHER ->
                       Gen({"framebufferFormat"},
                           <<Instr("fbAddress", "STORAGEPSMCT32")>>)
        depth == CASE caps.depthbufferFormat \in {PSMZ32, PSMZ24} ->
                          Gen({}, <<Instr("depthAddress", "STORAGEPSMZ32")>>)
                   [] caps.depthbufferFormat \in {PSMZ16, PSMZ16S} ->
                          Gen({}, <<Instr("depthAddress", "STORAGEPSMCT16")>>)
                   [] OTHER ->
                          Gen({"depthbufferFormat"},
                              <<Instr("depthAddress", "STORAGEPSMZ32")>>)
    IN  Then(fb, depth)

\* lines 1095-1133: the destination pixel and depth, read when needed
ReadDestinationStage(caps) ==
    LET needsDstColor == (caps.hasAlphaBlending # 0) \/ (caps.maskColor # 0)
        color ==
            IF ~needsDstColor THEN Gen({}, <<>>)
            ELSE CASE caps.framebufferFormat = PSMCT32 ->
                          Gen({}, <<Instr("ReadDstColor", "Memory_Read32")>>)
                   [] caps.framebufferFormat = PSMCT24 ->
                          Gen({}, <<Instr("ReadDstColor", "Memory_Read24")>>)
                   [] caps.framebufferFormat \in {PSMCT16, PSMCT16S} ->
                          Gen({}, <<Instr("ReadDstColor", "Memory_Read16")>>)
                   [] OTHER ->
                          Gen({"ReadDstColor"},
                              <<Instr("ReadDstColor", "Memory_Read32")>>)
        needsDstDepth ==
            caps.depthTestFunction \in {DEPTH_TEST_GEQUAL, DEPTH_TEST_GREATER}
        depth == IF needsDstDepth THEN GetDepth(caps.depthbufferFormat)
                 ELSE Gen({}, <<>>)
    IN  Then(color, depth)

\* lines 1135-1150: a switch without a default label
DepthTestStage(caps) ==
    IF caps.depthTestFunction \in
           {DEPTH_TEST_ALWAYS, DEPTH_TEST_NEVER,
            DEPTH_TEST_GEQUAL, DEPTH_TEST_GREATER}
    THEN Gen({}, <<Instr("DepthTest", caps.depthTestFunction)>>)
    ELSE Gen({}, <<>>)

\* the terms A and B exchanged
BlendStage_SwappedAB(caps) ==
    IF caps.hasAlphaBlending # 0
    THEN LET alphaA == GetAlphaABD(caps.alphaB)
             alphaB == GetAlphaABD(caps.alphaA)
             alphaC == GetAlphaC(caps.alphaC)
             alphaD == GetAlphaABD(caps.alphaD)
             selected == Then(alphaA, Then(alphaB, Then(alphaC, alphaD)))
         IN  Gen(selected.asserts, <<Instr("Blend", selected.code)>>)
    ELSE Gen({}, <<Instr("CopyColor", <<>>)>>)

\* lines 1152-1167
BlendStage(caps) ==
    IF caps.hasAlphaBlending # 0
    THEN LET alphaA == GetAlphaABD(caps.alphaA)
             alphaB == GetAlphaABD(caps.alphaB)
             alphaC == GetAlphaC(caps.alphaC)
             alphaD == GetAlphaABD(caps.alphaD)
             selected == Then(alphaA, Then(alphaB, Then(alphaC, alphaD)))
         IN  Gen(selected.asserts, <<Instr("Blend", selected.code)>>)
    ELSE Gen({}, <<Instr("CopyColor", <<>>)>>)

\* the writes outside BeginIf(b, depthTestResult)
CommitStage_Unconditional(caps) ==
    Then(WriteToFramebuffer(caps.framebufferFormat),
         IF caps.writeDepth # 0
         THEN WriteToDepthbuffer(caps.depthbufferFormat)
         ELSE Gen({}, <<>>))

\* the writes under the result of the alpha test
CommitStage_AlphaGated(caps) ==
    LET color == WriteToFramebuffer(caps.framebufferFormat)
        depth == IF caps.writeDepth # 0
                 THEN WriteToDepthbuffer(caps.depthbufferFormat)
                 ELSE Gen({}, <<>>)
        both == Then(color, depth)
    IN  Gen(both.asserts,
            [i \in 1..Len(both.code) |->
                [both.code[i] EXCEPT !.cond = "alphaTestResult"]])

\* lines 1169-1180: the writes, under BeginIf(b, depthTestResult)
CommitStage(caps) ==
    LET color == WriteToFramebuffer(caps.framebufferFormat)
        depth == IF caps.writeDepth # 0
                 THEN WriteToDepthbuffer(caps.depthbufferFormat)
                 ELSE Gen({}, <<>>)
        both == Then(color, depth)
    IN  Gen(both.asserts,
            [i \in 1..Len(both.code) |-> IfDepthTest(both.code[i])])

BeginInvocationInterlock == Gen({}, <<Instr("BeginInvocationInterlock", <<>>)>>)

EndInvocationInterlock == Gen({}, <<Instr("EndInvocationInterlock", <<>>)>>)

\* the interlock taken only around the writes
CreateFragmentShader_LateInterlock(caps) ==
    Then(TextureStage(caps),
    Then(AlphaTestStage(caps),
    Then(AddressStage(caps),
    Then(ReadDestinationStage(caps),
    Then(DepthTestStage(caps),
    Then(BlendStage(caps),
    Then(BeginInvocationInterlock,
    Then(CommitStage(caps),
    Then(EndInvocationInterlock,
         Gen({}, <<Instr("outputColor", <<>>)>>))))))))))

\* CDraw::CreateFragmentShader
CreateFragmentShader(caps) ==
    Then(TextureStage(caps),
    Then(AlphaTestStage(caps),
    Then(AddressStage(caps),
    Then(BeginInvocationInterlock,
    Then(ReadDestinationStage(caps),
    Then(DepthTestStage(caps),
    Then(BlendStage(caps),
    Then(CommitStage(caps),
    Then(EndInvocationInterlock,
         Gen({}, <<Instr("outputColor", <<>>)>>))))))))))

(***************************************************************************)
(* The values a generated program computes with.  A float is a number of   *)
(* 1/510ths, so that 510 is 1.0 and the quantisation to 8 bits (times 255, *)
(* truncated) is not exact; a colour is <<x, y, z, w>>.  A 32-bit word of  *)
(* the framebuffer is its four bytes, lowest first; a depth is a number.   *)
(***************************************************************************)
FloatOne == 510

RECURSIVE BitAnd(_, _)
BitAnd(a, b) ==
    IF a = 0 \/ b = 0 THEN 0
    ELSE ((a % 2) * (b % 2)) + 2 * BitAnd(a \div 2, b \div 2)

RECURSIVE BitOr(_, _)
BitOr(a, b) ==
    IF a = 0 THEN b
    ELSE IF b = 0 THEN a
    ELSE (IF a % 2 = 1 \/ b % 2 = 1 THEN 1 ELSE 0)
         + 2 * BitOr(a \div 2, b \div 2)

WordAnd(a, b) == [i \in 1..4 |-> BitAnd(a[i], b[i])]

WordOr(a, b) == [i \in 1..4 |-> BitOr(a[i], b[i])]

WordNot(a) == [i \in 1..4 |-> 255 - a[i]]

\* ToUint of a 32-bit int holding a bit pattern: the bytes of its two's
\* complement
ToUintWord(n) ==
    LET low == IF n < 0 THEN (n + 2147483647) + 1 ELSE n
    IN  <<low % 256, (low \div 256) % 256, (low \div 65536) % 256,
          (low \div 16777216) + (IF n < 0 THEN 128 ELSE 0)>>

Clamp(v, lo, hi) == IF v < lo THEN lo ELSE IF v > hi THEN hi ELSE v

Clamp4(c) == [i \in 1..4 |-> Clamp(c[i], 0, FloatOne)]

\* ToUint(f * scale)
ToUintScaled(f, scale) == (f * scale) \div FloatOne

\* ToFloat(n) / scale
FromUintScaled(n, scale) == (n * FloatOne) \div scale

\* CMemoryUtils::Vec4ToPSM32 and PSM32ToVec4
Vec4ToPSM32(c) == [i \in 1..4 |-> ToUintScaled(c[i], 255) % 256]

PSM32ToVec4(p) == [i \in 1..4 |-> FromUintScaled(p[i], 255)]

\* CMemoryUtils::Vec4ToPSM16 and PSM16ToVec4: 5 bits per channel, 1 of alpha
Vec4ToPSM16(c) ==
    LET v == (ToUintScaled(c[1], 31) % 32)
             + 32 * (ToUintScaled(c[2], 31) % 32)
             + 1024 * (ToUintScaled(c[3], 31) % 32)
             + 32768 * (ToUintScaled(c[4], 1) % 2)
    IN  <<v % 256, v \div 256, 0, 0>>

PSM16ToVec4(p) ==
    LET v == p[1] + 256 * p[2]
    IN  <<FromUintScaled(v % 32, 31), FromUintScaled((v \div 32) % 32, 31),
          FromUintScaled((v \div 1024) % 32, 31),
          FromUintScaled((v \div 32768) % 2, 1)>>

\* CMemoryUtils::Memory_Read32 / 24 / 16 of a word of the framebuffer
ReadWord(word, read) ==
    CASE read = "Memory_Read32" -> word
      [] read = "Memory_Read24" -> <<word[1], word[2], word[3], 0>>
      [] read = "Memory_Read16" -> <<word[1], word[2], 0, 0>>

\* CMemoryUtils::Memory_Write32 / 24 / 16: the bytes above the width stay
WriteWord(word, write, value) ==
    CASE write = "Memory_Write32" -> value
      [] write = "Memory_Write24" -> <<value[1], value[2], value[3], word[4]>>
      [] write = "Memory_Write16" -> <<value[1], value[2], word[3], word[4]>>

DepthWidth(access) ==
    CASE access \in {"Memory_Read32", "Memory_Write32"} -> 0
      [] access \in {"Memory_Read24", "Memory_Write24"} -> 16777216
      [] access \in {"Memory_Read16", "Memory_Write16"} -> 65536

ReadDepth(depth, read) ==
    IF DepthWidth(read) = 0 THEN depth ELSE depth % DepthWidth(read)

WriteDepth(depth, write, value) ==
    IF DepthWidth(write) = 0 THEN value
    ELSE (depth \div DepthWidth(write)) * DepthWidth(write)
         + (value % DepthWidth(write))

(***************************************************************************)
(* The execution of the instructions of a generated program by one         *)
(* fragment.  f holds the variables and temporaries of the invocation, in  *)
(* its interpolated inputs, pc the push constants, tex the texture and the *)
(* colour look-up table, mem the framebuffer and depthbuffer words of the  *)
(* pixel the fragment covers.                                              *)
(***************************************************************************)
Select3(sel, srcColor, dstColor) ==
    CASE sel = ALPHABLEND_ABD_CS -> <<srcColor[1], srcColor[2], srcColor[3]>>
      [] sel = ALPHABLEND_ABD_CD -> <<dstColor[1], dstColor[2], dstColor[3]>>
      [] sel = ALPHABLEND_ABD_ZERO -> <<0, 0, 0>>

SelectC(sel, srcColor, dstColor, alphaFix) ==
    CASE sel = ALPHABLEND_C_AS -> srcColor[4]
      [] sel = ALPHABLEND_C_AD -> dstColor[4]
      [] sel = ALPHABLEND_C_FIX -> alphaFix

\* ((alphaA - alphaB) * alphaC * 2) + alphaD, alpha of the texture stage
BlendColor(sel, textureColor, dstColor, alphaFix) ==
    LET alphaA == Select3(sel[1], textureColor, dstColor)
        alphaB == Select3(sel[2], textureColor, dstColor)
        alphaC == SelectC(sel[3], textureColor, dstColor, alphaFix)
        alphaD == Select3(sel[4], textureColor, dstColor)
        blendedColor == [i \in 1..3 |->
            (((alphaA[i] - alphaB[i]) * alphaC * 2) \div FloatOne) + alphaD[i]]
    IN  <<blendedColor[1], blendedColor[2], blendedColor[3], textureColor[4]>>

ClampedCoord(mode, texCoord, texSize, clampMin, clampMax) ==
    CASE mode = CLAMP_MODE_REPEAT -> BitAnd(texCoord, texSize - 1)
      [] mode = CLAMP_MODE_CLAMP -> Clamp(texCoord, 0, texSize - 1)
      [] mode = CLAMP_MODE_REGION_CLAMP -> Clamp(texCoord, clampMin, clampMax)
      [] mode = CLAMP_MODE_REGION_REPEAT ->
             BitOr(BitAnd(texCoord, clampMin), clampMax)

TextureFunction(function, hasAlpha, textureColor, inputColor) ==
    LET product == [i \in 1..4 |->
                       (textureColor[i] * inputColor[i] * 2) \div FloatOne]
        modulated == Clamp4(product)
        highlit == Clamp4([i \in 1..4 |-> product[i] + inputColor[4]])
        result == IF function = TEX0_FUNCTION_MODULATE
                  THEN modulated ELSE highlit
    IN  <<result[1], result[2], result[3],
          IF hasAlpha THEN result[4] ELSE inputColor[4]>>

ExpandedAlpha(blackIsTransparent, textureColor, texA0, texA1) ==
    LET a0 == FromUintScaled(texA0, 255)
        a1 == FromUintScaled(texA1, 255)
        alpha == ((a0 * (FloatOne - textureColor[4]))
                  + (a1 * textureColor[4])) \div FloatOne
        colorSum == textureColor[1] + textureColor[2] + textureColor[3]
    IN  <<textureColor[1], textureColor[2], textureColor[3],
          IF blackIsTransparent /\ colorSum = 0 THEN 0 ELSE alpha>>

AlphaTest(function, textureColor, alphaRef) ==
    LET alphaUint == ToUintScaled(textureColor[4], 255)
    IN  CASE function = ALPHA_TEST_ALWAYS -> TRUE
          [] function = ALPHA_TEST_EQUAL -> alphaUint = alphaRef
          [] function = ALPHA_TEST_GEQUAL -> alphaUint >= alphaRef

DepthTest(function, srcDepth, dstDepth) ==
    CASE function = DEPTH_TEST_ALWAYS -> TRUE
      [] function = DEPTH_TEST_NEVER -> FALSE
      [] function = DEPTH_TEST_GEQUAL -> srcDepth >= dstDepth
      [] function = DEPTH_TEST_GREATER -> srcDepth > dstDepth

\* dstPixel = (packed dstColor & fbWriteMask) | (dstPixel & ~fbWriteMask)
MaskedPixel(write, dstColor, dstPixel, fbWriteMask) ==
    LET packed == IF write = "Memory_Write16"
                  THEN Vec4ToPSM16(dstColor) ELSE Vec4ToPSM32(dstColor)
    IN  WordOr(WordAnd(packed, fbWriteMask),
               WordAnd(dstPixel, WordNot(fbWriteMask)))

\* the variables of an invocation before its first instruction; dstPixel
\* is a temporary the program may read without having assigned it, so its
\* first value is whatever the register happens to hold
NewFragment(input, leftover) ==
    [input |-> input, ip |-> 1, locked |-> FALSE,
     textureColor |-> <<FloatOne, FloatOne, FloatOne, FloatOne>>,
     texelPos |-> <<0, 0>>, texPixel |-> 0,
     alphaTestResult |-> FALSE,
     dstPixel |-> leftover, dstColor |-> <<0, 0, 0, 0>>, dstDepth |-> 0,
     depthTestResult |-> FALSE,
     outputColor |-> <<0, 0, 0, 0>>,
     accesses |-> <<>>]

\* an access to the destination, as the fragment made it
Access(f, name, before, after) ==
    Append(f.accesses, [access |-> name, locked |-> f.locked,
                        before |-> before, after |-> after])

\* the effect of one instruction on the invocation and on the memory
Execute(instr, f, consts, tex, mem) ==
    LET srcDepth == f.input.depth
        skip == [f |-> f, mem |-> mem]
        Set(g) == [f |-> g, mem |-> mem]
    IN
    IF instr.cond # "always" /\ ~f[instr.cond] THEN skip
    ELSE CASE instr.op = "InputColor" ->
             Set([f EXCEPT !.textureColor = f.input.color])
      [] instr.op = "TexelPos" ->
             Set([f EXCEPT !.texelPos = f.input.texelPos])
      [] instr.op = "ClampTexCoord" ->
             LET axis == instr.arg[1]
                 texSize == <<consts.texWidth, consts.texHeight>>
             IN  Set([f EXCEPT !.texelPos[axis] =
                          ClampedCoord(instr.arg[2], @, texSize[axis],
                                       consts.clampMin[axis],
                                       consts.clampMax[axis])])
      [] instr.op = "GetTextureColor" ->
             LET texPixel == ReadWord(tex.texels[f.texelPos],
                                      instr.arg)
             IN  Set([f EXCEPT !.textureColor =
                          IF instr.arg = "Memory_Read16"
                          THEN PSM16ToVec4(texPixel)
                          ELSE PSM32ToVec4(texPixel)])
      [] instr.op = "GetTexturePixel" ->
             LET byte == tex.texels[f.texelPos][1]
             IN  Set([f EXCEPT !.texPixel =
                          IF instr.arg = "Memory_Read4"
                          THEN byte % 16 ELSE byte])
      [] instr.op = "GetClutColor" ->
             LET clutIndex == IF instr.arg THEN f.texPixel
                              ELSE f.texPixel + consts.texCsa
             IN  Set([f EXCEPT !.textureColor =
                          PSM32ToVec4(tex.clut[clutIndex])])
      [] instr.op = "ExpandAlpha" ->
             Set([f EXCEPT !.textureColor =
                      ExpandedAlpha(instr.arg, @, consts.texA0, consts.texA1)])
      [] instr.op = "TextureFunction" ->
             Set([f EXCEPT !.textureColor =
                      TextureFunction(instr.arg[1], instr.arg[2], @,
                                      f.input.color)])
      [] instr.op = "AlphaTest" ->
             Set([f EXCEPT !.alphaTestResult =
                      AlphaTest(instr.arg, f.textureColor, consts.alphaRef)])
      [] instr.op \in {"fbAddress", "depthAddress"} -> skip
      [] instr.op = "BeginInvocationInterlock" ->
             Set([f EXCEPT !.locked = TRUE])
      [] instr.op = "EndInvocationInterlock" ->
             Set([f EXCEPT !.locked = FALSE])
      [] instr.op = "ReadDstColor" ->
             LET dstPixel == ReadWord(mem.fb, instr.arg)
             IN  Set([f EXCEPT !.dstPixel = dstPixel,
                               !.dstColor =
                                   IF instr.arg = "Memory_Read16"
                                   THEN PSM16ToVec4(dstPixel)
                                   ELSE PSM32ToVec4(dstPixel),
                               !.accesses =
                                   Access(f, "ReadDstColor", mem.fb, mem.fb)])
      [] instr.op = "GetDepth" ->
             Set([f EXCEPT !.dstDepth = ReadDepth(mem.depth, instr.arg),
                           !.accesses =
                               Access(f, "GetDepth", mem.depth, mem.depth)])
      [] instr.op = "DepthTest" ->
             Set([f EXCEPT !.depthTestResult =
                      DepthTest(instr.arg, srcDepth, f.dstDepth)])
      [] instr.op = "Blend" ->
             Set([f EXCEPT !.dstColor =
                      Clamp4(BlendColor(instr.arg, f.textureColor, @,
                                        FromUintScaled(consts.alphaFix, 255)))])
      [] instr.op = "CopyColor" ->
             Set([f EXCEPT !.dstColor = f.textureColor])
      [] instr.op = "WriteToFramebuffer" ->
             LET dstPixel == MaskedPixel(instr.arg, f.dstColor, f.dstPixel,
                                         ToUintWord(consts.fbWriteMask))
                 written == WriteWord(mem.fb, instr.arg, dstPixel)
             IN  [f |-> [f EXCEPT !.dstPixel = dstPixel,
                                  !.accesses =
                                      Access(f, "WriteToFramebuffer",
                                             mem.fb, written)],
                  mem |-> [mem EXCEPT !.fb = written]]
      [] instr.op = "WriteToDepthbuffer" ->
             LET written == WriteDepth(mem.depth, instr.arg, srcDepth)
             IN  [f |-> [f EXCEPT !.accesses =
                                      Access(f, "WriteToDepthbuffer",
                                             mem.depth, written)],
                  mem |-> [mem EXCEPT !.depth = written]]
      [] instr.op = "outputColor" ->
             Set([f EXCEPT !.outputColor = f.dstColor])

\* an invocation run from its current instruction to the end of the program
RECURSIVE RunFragment(_, _, _, _, _)
RunFragment(code, f, consts, tex, mem) ==
    IF f.ip > Len(code) THEN [f |-> f, mem |-> mem]
    ELSE LET done == Execute(code[f.ip], f, consts, tex, mem)
         IN  RunFragment(code, [done.f EXCEPT !.ip = @ + 1], consts, tex,
                         done.mem)

(***************************************************************************)
(* State.                                                                  *)
(*   draw  the members of CDraw                                            *)
(*   env   the collaborators: the frame command buffer (current frame      *)
(*         slot, the commands recorded by the last operation), the objects *)
(*         created so far, and whether an assertion of the code failed     *)
(*   op    the last operation called, its arguments, the batch cursors it  *)
(*         found, and the values last given to each setter                 *)
(*   gpu   the fragments of a draw in flight on the device: the program    *)
(*         they run, its push constants, the texture, the memory words of  *)
(*         the pixel they cover, and the variables of each invocation      *)
(***************************************************************************)
VARIABLES draw, env, op, gpu

vars == <<draw, env, op, gpu>>

Vals == {0, 1}

\* DRAW_PIPELINE_PUSHCONSTANTS, zero-initialised
ZeroPushConstants ==
    [fbBufAddr |-> 0, fbBufWidth |-> 0, fbWriteMask |-> 0,
     depthBufAddr |-> 0, depthBufWidth |-> 0,
     texBufAddr |-> 0, texBufWidth |-> 0, texWidth |-> 0, texHeight |-> 0,
     texCsa |-> 0, texA0 |-> 0, texA1 |-> 0, alphaRef |-> 0,
     clampMin |-> <<0, 0>>, clampMax |-> <<0, 0>>, alphaFix |-> 0]

\* the empty std::map / unordered_map
EmptyMap == [k \in {} |-> 0]

\* CDraw::CDraw
InitDraw ==
    [m_pipelineCaps |-> ZeroCaps,
     m_pushConstants |-> ZeroPushConstants,
     m_scissorX |-> 0, m_scissorY |-> 0,
     m_scissorWidth |-> 0, m_scissorHeight |-> 0,
     m_passVertexStart |-> 0, m_passVertexEnd |-> 0,
     m_pipelineCache |-> EmptyMap,
     m_descriptorSetCache |-> EmptyMap]

\* currentFrame: CFrameCommandBuffer::GetCurrentFrame
\* cmds: the Vulkan calls and vertex copies made by the last operation
\* flushCalls: the FlushVertices invocations made by the last operation
\* pipelinesCreated / setsAllocated: objects created so far, per key
\* batchStates: the committed states under which the vertices of the open
\*   batch were appended
\* status: "ok" until an assert of the code is violated
InitEnv ==
    [currentFrame |-> 0,
     cmds |-> <<>>,
     flushCalls |-> 0,
     pipelinesCreated |-> [c \in CapsInputs \cup TexturedCapsInputs |-> 0],
     setsAllocated |->
         [c \in {DescriptorSetCapsOf(k) :
                    k \in CapsInputs \cup TexturedCapsInputs} |-> 0],
     batchStates |-> {},
     status |-> "ok"]

\* the committed draw state: capability descriptor, push constants, scissor
Committed(d) ==
    [caps |-> d.m_pipelineCaps,
     pushConstants |-> d.m_pushConstants,
     scissor |-> <<d.m_scissorX, d.m_scissorY, d.m_scissorWidth, d.m_scissorHeight>>]

Cmd(name, arg) == [cmd |-> name, arg |-> arg]

Record(x, name, arg) == [x EXCEPT !.e.cmds = Append(@, Cmd(name, arg))]

\* assert(cond): a violated assertion is remembered; the call goes on as in
\* a build without assertions
CheckAssert(x, cond, what) ==
    IF cond \/ x.e.status # "ok" THEN x ELSE [x EXCEPT !.e.status = what]

(***************************************************************************)
(* Pipeline cache (CPipelineCache) and pipeline creation.                  *)
(***************************************************************************)
NoPipeline ==
    [handle |-> <<ZeroCaps, 0>>, descriptorSetLayout |-> {}]

\* the bindings CreateDrawPipeline puts in the descriptor set layout
LayoutBindings(caps) ==
    {DESCRIPTOR_LOCATION_BUFFER_MEMORY,
     DESCRIPTOR_LOCATION_IMAGE_SWIZZLETABLE_FB,
     DESCRIPTOR_LOCATION_IMAGE_SWIZZLETABLE_DEPTH}
    \cup (IF caps.hasTexture # 0
          THEN {DESCRIPTOR_LOCATION_IMAGE_SWIZZLETABLE_TEX}
               \cup (IF IsPsmIDTEX(caps.textureFormat)
                     THEN {DESCRIPTOR_LOCATION_IMAGE_CLUT} ELSE {})
          ELSE {})

\* m_pipelineCache.TryGetPipeline(caps): the cached pipeline, or none
TryGetPipeline(cache, caps) ==
    IF caps \in DOMAIN cache THEN cache[caps] ELSE NoPipeline

\* m_pipelineCache.RegisterPipeline(caps, pipeline): inserts
RegisterPipeline(cache, caps, pipeline) ==
    (caps :> pipeline) @@ cache

\* CDraw::CreateDrawPipeline: a new pipeline object, the n-th made for caps.
\* Its shaders are functions of caps, which the handle carries: the fragment
\* shader is FragmentShaderOf the pipeline.
CreateDrawPipeline(x, caps) ==
    [handle |-> <<caps, x.e.pipelinesCreated[caps] + 1>>,
     descriptorSetLayout |-> LayoutBindings(caps)]

\* line 421: the fragment shader CreateDrawPipeline builds the pipeline
\* with.  The assertions the generator violated stay with the shader: with
\* assertions compiled out the generator goes on with the code that follows
\* them and the pipeline is made of what it produced.
FragmentShaderOf(pipeline) == CreateFragmentShader(pipeline.handle[1])

\* the pipeline created without asking the cache
ResolvePipeline_AlwaysCreates(x) ==
    LET caps == x.d.m_pipelineCaps
        created == CreateDrawPipeline(x, caps)
        x1 == [x EXCEPT !.e.pipelinesCreated[caps] = @ + 1]
        x2 == Record(x1, "CreateDrawPipeline", created)
    IN  [x2 EXCEPT !.d.m_pipelineCache = RegisterPipeline(@, caps, created)]

\* lines 191-196 of FlushVertices: find the pipeline, create it on a miss
ResolvePipeline(x) ==
    LET caps == x.d.m_pipelineCaps
        found == TryGetPipeline(x.d.m_pipelineCache, caps)
    IN  IF found # NoPipeline
        THEN x
        ELSE LET created == CreateDrawPipeline(x, caps)
                 x1 == [x EXCEPT !.e.pipelinesCreated[caps] = @ + 1]
                 x2 == Record(x1, "CreateDrawPipeline", created)
             IN  [x2 EXCEPT !.d.m_pipelineCache =
                                RegisterPipeline(@, caps, created)]

(***************************************************************************)
(* Descriptor-set cache.                                                   *)
(***************************************************************************)
\* the descriptor writes PrepareDescriptorSet collects
DescriptorWrites(caps) ==
    {DESCRIPTOR_LOCATION_BUFFER_MEMORY,
     DESCRIPTOR_LOCATION_IMAGE_SWIZZLETABLE_FB,
     DESCRIPTOR_LOCATION_IMAGE_SWIZZLETABLE_DEPTH}
    \cup (IF caps.hasTexture # 0
          THEN {DESCRIPTOR_LOCATION_IMAGE_SWIZZLETABLE_TEX}
               \cup (IF IsPsmIDTEX(caps.textureFormat)
                     THEN {DESCRIPTOR_LOCATION_IMAGE_CLUT} ELSE {})
          ELSE {})

\* without the search of the cache: a set is allocated on every call
PrepareDescriptorSet_NoLookup(x, descriptorSetLayout, caps) ==
    LET descriptorSet ==
            [handle |-> <<caps, x.e.setsAllocated[caps] + 1>>,
             layout |-> descriptorSetLayout,
             writes |-> DescriptorWrites(caps)]
        x1 == [x EXCEPT !.e.setsAllocated[caps] = @ + 1]
        x2 == Record(x1, "vkAllocateDescriptorSets", descriptorSet)
        x3 == Record(x2, "vkUpdateDescriptorSets", descriptorSet)
    IN  [x |-> [x3 EXCEPT !.d.m_descriptorSetCache =
                              IF caps \in DOMAIN @ THEN @
                              ELSE (caps :> descriptorSet) @@ @],
         descriptorSet |-> descriptorSet]

\* CDraw::PrepareDescriptorSet: the state after the call (x) and the
\* descriptor set returned
PrepareDescriptorSet(x, descriptorSetLayout, caps) ==
    IF caps \in DOMAIN x.d.m_descriptorSetCache
    THEN [x |-> x, descriptorSet |-> x.d.m_descriptorSetCache[caps]]
    ELSE LET descriptorSet ==
                 [handle |-> <<caps, x.e.setsAllocated[caps] + 1>>,
                  layout |-> descriptorSetLayout,
                  writes |-> DescriptorWrites(caps)]
             x1 == [x EXCEPT !.e.setsAllocated[caps] = @ + 1]
             x2 == Record(x1, "vkAllocateDescriptorSets", descriptorSet)
             x3 == Record(x2, "vkUpdateDescriptorSets", descriptorSet)
         IN  [x |-> [x3 EXCEPT !.d.m_descriptorSetCache =
                                   IF caps \in DOMAIN @ THEN @
                                   ELSE (caps :> descriptorSet) @@ @],
              descriptorSet |-> descriptorSet]

(***************************************************************************)
(* CDraw::FlushVertices.                                                   *)
(***************************************************************************)
\* the vertex buffer bound at its start, the batch addressed by firstVertex
FlushCommands_OffsetZero(x, vertexCount) ==
    LET d == x.d
        drawPipeline == d.m_pipelineCache[d.m_pipelineCaps]
        x1 == Record(x, "vkCmdSetViewport",
                     <<DRAW_AREA_SIZE, DRAW_AREA_SIZE>>)
        x2 == Record(x1, "vkCmdSetScissor",
                     <<d.m_scissorX, d.m_scissorY,
                       d.m_scissorWidth, d.m_scissorHeight>>)
        x3 == Record(x2, "vkCmdBeginRenderPass",
                     <<DRAW_AREA_SIZE, DRAW_AREA_SIZE>>)
        descriptorSetCaps == DescriptorSetCapsOf(d.m_pipelineCaps)
        prepared == PrepareDescriptorSet(x3, drawPipeline.descriptorSetLayout,
                                         descriptorSetCaps)
        x5 == Record(prepared.x, "vkCmdBindDescriptorSets",
                     prepared.descriptorSet)
        x6 == Record(x5, "vkCmdBindPipeline", drawPipeline)
        x7 == Record(x6, "vkCmdBindVertexBuffers",
                     [frame |-> x.e.currentFrame, offset |-> 0])
        x8 == Record(x7, "vkCmdPushConstants", d.m_pushConstants)
        x9 == CheckAssert(x8, vertexCount % 3 = 0, "assert_triangles")
        x10 == Record(x9, "vkCmdDraw",
                      [vertexCount |-> vertexCount, instanceCount |-> 1,
                       firstVertex |-> d.m_passVertexStart, firstInstance |-> 0,
                       batchStates |-> x.e.batchStates])
    IN  Record(x10, "vkCmdEndRenderPass", <<>>)

\* the descriptor set prepared before the viewport is set
FlushCommands_SetBeforeRenderPass(x, vertexCount) ==
    LET d == x.d
        drawPipeline == d.m_pipelineCache[d.m_pipelineCaps]
        descriptorSetCaps == DescriptorSetCapsOf(d.m_pipelineCaps)
        prepared == PrepareDescriptorSet(x, drawPipeline.descriptorSetLayout,
                                         descriptorSetCaps)
        x1 == Record(prepared.x, "vkCmdSetViewport",
                     <<DRAW_AREA_SIZE, DRAW_AREA_SIZE>>)
        x2 == Record(x1, "vkCmdSetScissor",
                     <<d.m_scissorX, d.m_scissorY,
                       d.m_scissorWidth, d.m_scissorHeight>>)
        x3 == Record(x2, "vkCmdBeginRenderPass",
                     <<DRAW_AREA_SIZE, DRAW_AREA_SIZE>>)
        x5 == Record(x3, "vkCmdBindDescriptorSets", prepared.descriptorSet)
        x6 == Record(x5, "vkCmdBindPipeline", drawPipeline)
        x7 == Record(x6, "vkCmdBindVertexBuffers",
                     [frame |-> x.e.currentFrame,
                      offset |-> d.m_passVertexStart * SizeofPrimVertex])
        x8 == Record(x7, "vkCmdPushConstants", d.m_pushConstants)
        x9 == CheckAssert(x8, vertexCount % 3 = 0, "assert_triangles")
        x10 == Record(x9, "vkCmdDraw",
                      [vertexCount |-> vertexCount, instanceCount |-> 1,
                       firstVertex |-> 0, firstInstance |-> 0,
                       batchStates |-> x.e.batchStates])
    IN  Record(x10, "vkCmdEndRenderPass", <<>>)

\* the commands recorded once the pipeline is known; the descriptor set is
\* prepared after the render pass has begun (line 226)
FlushCommands(x, vertexCount) ==
    LET d == x.d
        drawPipeline == d.m_pipelineCache[d.m_pipelineCaps]
        x1 == Record(x, "vkCmdSetViewport",
                     <<DRAW_AREA_SIZE, DRAW_AREA_SIZE>>)
        x2 == Record(x1, "vkCmdSetScissor",
                     <<d.m_scissorX, d.m_scissorY,
                       d.m_scissorWidth, d.m_scissorHeight>>)
        x3 == Record(x2, "vkCmdBeginRenderPass",
                     <<DRAW_AREA_SIZE, DRAW_AREA_SIZE>>)
        descriptorSetCaps == DescriptorSetCapsOf(d.m_pipelineCaps)
        prepared == PrepareDescriptorSet(x3, drawPipeline.descriptorSetLayout,
                                         descriptorSetCaps)
        x5 == Record(prepared.x, "vkCmdBindDescriptorSets",
                     prepared.descriptorSet)
        x6 == Record(x5, "vkCmdBindPipeline", drawPipeline)
        x7 == Record(x6, "vkCmdBindVertexBuffers",
                     [frame |-> x.e.currentFrame,
                      offset |-> d.m_passVertexStart * SizeofPrimVertex])
        x8 == Record(x7, "vkCmdPushConstants", d.m_pushConstants)
        x9 == CheckAssert(x8, vertexCount % 3 = 0, "assert_triangles")
        x10 == Record(x9, "vkCmdDraw",
                      [vertexCount |-> vertexCount, instanceCount |-> 1,
                       firstVertex |-> 0, firstInstance |-> 0,
                       batchStates |-> x.e.batchStates])
    IN  Record(x10, "vkCmdEndRenderPass", <<>>)

\* the pipeline resolved before the check for an empty batch
FlushVertices_ResolvesFirst(x) ==
    LET called == ResolvePipeline([x EXCEPT !.e.flushCalls = @ + 1])
        vertexCount == x.d.m_passVertexEnd - x.d.m_passVertexStart
    IN  IF vertexCount = 0
        THEN called
        ELSE LET x1 == FlushCommands(called, vertexCount)
             IN  [x1 EXCEPT !.d.m_passVertexStart = x.d.m_passVertexEnd,
                            !.e.batchStates = {}]

\* without the early return on an empty batch
FlushVertices_NoEmptyCheck(x) ==
    LET called == [x EXCEPT !.e.flushCalls = @ + 1]
        vertexCount == x.d.m_passVertexEnd - x.d.m_passVertexStart
        x1 == FlushCommands(ResolvePipeline(called), vertexCount)
    IN  [x1 EXCEPT !.d.m_passVertexStart = x.d.m_passVertexEnd,
                   !.e.batchStates = {}]

\* the batch start cursor left where it was
FlushVertices_KeepsStart(x) ==
    LET called == [x EXCEPT !.e.flushCalls = @ + 1]
        vertexCount == x.d.m_passVertexEnd - x.d.m_passVertexStart
    IN  IF vertexCount = 0
        THEN called
        ELSE LET x1 == FlushCommands(ResolvePipeline(called), vertexCount)
             IN  [x1 EXCEPT !.e.batchStates = {}]

\* CDraw::FlushVertices
FlushVertices(x) ==
    LET called == [x EXCEPT !.e.flushCalls = @ + 1]
        vertexCount == x.d.m_passVertexEnd - x.d.m_passVertexStart
    IN  IF vertexCount = 0
        THEN called
        ELSE LET x1 == FlushCommands(ResolvePipeline(called), vertexCount)
             IN  [x1 EXCEPT !.d.m_passVertexStart = x.d.m_passVertexEnd,
                            !.e.batchStates = {}]

\* a hook that leaves the pending batch undrawn
PreFlushFrameCommandBuffer_Empty(x) == x

\* CDraw::PreFlushFrameCommandBuffer
PreFlushFrameCommandBuffer(x) == FlushVertices(x)

\* a hook that rewinds the end cursor only
PostFlushFrameCommandBuffer_KeepsStart(x) ==
    [x EXCEPT !.d.m_passVertexEnd = 0, !.e.batchStates = {}]

\* CDraw::PostFlushFrameCommandBuffer
PostFlushFrameCommandBuffer(x) ==
    [x EXCEPT !.d.m_passVertexStart = 0, !.d.m_passVertexEnd = 0,
              !.e.batchStates = {}]

\* m_frameCommandBuffer->Flush(): the frame submission, which runs the hooks
\* of its writers around the queue submission and moves to the next slot
FrameCommandBufferFlush(x) ==
    LET x1 == PreFlushFrameCommandBuffer(x)
        x2 == Record(x1, "vkQueueSubmit", x.e.currentFrame)
        x3 == PostFlushFrameCommandBuffer(x2)
    IN  [x3 EXCEPT !.e.currentFrame = (@ + 1) % MAX_FRAMES]

(***************************************************************************)
(* CDraw::AddVertices.                                                     *)
(***************************************************************************)
\* the batch flushed instead of the frame when the run does not fit
AddVertices_FlushesBatchOnly(x, amount) ==
    LET x1 == IF x.d.m_passVertexEnd + amount > MAX_VERTEX_COUNT
              THEN LET f == FlushVertices(x)
                   IN  CheckAssert(f,
                           f.d.m_passVertexEnd + amount <= MAX_VERTEX_COUNT,
                           "assert_capacity")
              ELSE x
        x2 == Record(x1, "memcpy",
                     [frame |-> x1.e.currentFrame,
                      offset |-> x1.d.m_passVertexEnd,
                      amount |-> amount])
    IN  [x2 EXCEPT !.d.m_passVertexEnd = @ + amount,
                   !.e.batchStates =
                       IF amount = 0 THEN @ ELSE @ \cup {Committed(x1.d)}]

\* a pending batch drawn before every run is appended
AddVertices_DrawsPending(x, amount) ==
    LET x1 == IF x.d.m_passVertexEnd + amount > MAX_VERTEX_COUNT
              THEN LET f == FrameCommandBufferFlush(x)
                   IN  CheckAssert(f,
                           f.d.m_passVertexEnd + amount <= MAX_VERTEX_COUNT,
                           "assert_capacity")
              ELSE FlushVertices(x)
        x2 == Record(x1, "memcpy",
                     [frame |-> x1.e.currentFrame,
                      offset |-> x1.d.m_passVertexEnd,
                      amount |-> amount])
    IN  [x2 EXCEPT !.d.m_passVertexEnd = @ + amount,
                   !.e.batchStates =
                       IF amount = 0 THEN @ ELSE @ \cup {Committed(x1.d)}]

\* CDraw::AddVertices
AddVertices(x, amount) ==
    LET x1 == IF x.d.m_passVertexEnd + amount > MAX_VERTEX_COUNT
              THEN LET f == FrameCommandBufferFlush(x)
                   IN  CheckAssert(f,
                           f.d.m_passVertexEnd + amount <= MAX_VERTEX_COUNT,
                           "assert_capacity")
              ELSE x
        x2 == Record(x1, "memcpy",
                     [frame |-> x1.e.currentFrame,
                      offset |-> x1.d.m_passVertexEnd,
                      amount |-> amount])
    IN  [x2 EXCEPT !.d.m_passVertexEnd = @ + amount,
                   !.e.batchStates =
                       IF amount = 0 THEN @ ELSE @ \cup {Committed(x1.d)}]

(***************************************************************************)
(* The nine state setters.                                                 *)
(***************************************************************************)
SetPipelineCaps(x, caps) ==
    LET changed == CapsToUint64(caps) # CapsToUint64(x.d.m_pipelineCaps)
    IN  IF ~changed THEN x
        ELSE [FlushVertices(x) EXCEPT !.d.m_pipelineCaps = caps]

\* without the early return on unchanged values
SetFramebufferParams_AlwaysFlushes(x, addr, width, writeMask) ==
    [FlushVertices(x) EXCEPT !.d.m_pushConstants.fbBufAddr = addr,
                             !.d.m_pushConstants.fbBufWidth = width,
                             !.d.m_pushConstants.fbWriteMask = writeMask]

SetFramebufferParams(x, addr, width, writeMask) ==
    LET pc == x.d.m_pushConstants
        changed == \/ pc.fbBufAddr # addr
                   \/ pc.fbBufWidth # width
                   \/ pc.fbWriteMask # writeMask
    IN  IF ~changed THEN x
        ELSE [FlushVertices(x) EXCEPT !.d.m_pushConstants.fbBufAddr = addr,
                                      !.d.m_pushConstants.fbBufWidth = width,
                                      !.d.m_pushConstants.fbWriteMask = writeMask]

SetDepthbufferParams(x, addr, width) ==
    LET pc == x.d.m_pushConstants
        changed == \/ pc.depthBufAddr # addr
                   \/ pc.depthBufWidth # width
    IN  IF ~changed THEN x
        ELSE [FlushVertices(x) EXCEPT !.d.m_pushConstants.depthBufAddr = addr,
                                      !.d.m_pushConstants.depthBufWidth = width]

\* the new values stored before the pending batch is flushed
SetTextureParams_StoresFirst(x, bufAddr, bufWidth, width, height, csa) ==
    LET pc == x.d.m_pushConstants
        changed == \/ pc.texBufAddr # bufAddr
                   \/ pc.texBufWidth # bufWidth
                   \/ pc.texWidth # width
                   \/ pc.texHeight # height
                   \/ pc.texCsa # csa
    IN  IF ~changed THEN x
        ELSE FlushVertices([x EXCEPT !.d.m_pushConstants.texBufAddr = bufAddr,
                                     !.d.m_pushConstants.texBufWidth = bufWidth,
                                     !.d.m_pushConstants.texWidth = width,
                                     !.d.m_pushConstants.texHeight = height,
                                     !.d.m_pushConstants.texCsa = csa])

SetTextureParams(x, bufAddr, bufWidth, width, height, csa) ==
    LET pc == x.d.m_pushConstants
        changed == \/ pc.texBufAddr # bufAddr
                   \/ pc.texBufWidth # bufWidth
                   \/ pc.texWidth # width
                   \/ pc.texHeight # height
                   \/ pc.texCsa # csa
    IN  IF ~changed THEN x
        ELSE [FlushVertices(x) EXCEPT !.d.m_pushConstants.texBufAddr = bufAddr,
                                      !.d.m_pushConstants.texBufWidth = bufWidth,
                                      !.d.m_pushConstants.texWidth = width,
                                      !.d.m_pushConstants.texHeight = height,
                                      !.d.m_pushConstants.texCsa = csa]

SetTextureAlphaParams(x, texA0, texA1) ==
    LET pc == x.d.m_pushConstants
        changed == \/ pc.texA0 # texA0
                   \/ pc.texA1 # texA1
    IN  IF ~changed THEN x
        ELSE [FlushVertices(x) EXCEPT !.d.m_pushConstants.texA0 = texA0,
                                      !.d.m_pushConstants.texA1 = texA1]

SetAlphaTestParams(x, alphaRef) ==
    LET changed == x.d.m_pushConstants.alphaRef # alphaRef
    IN  IF ~changed THEN x
        ELSE [FlushVertices(x) EXCEPT !.d.m_pushConstants.alphaRef = alphaRef]

SetTextureClampParams(x, clampMinU, clampMinV, clampMaxU, clampMaxV) ==
    LET pc == x.d.m_pushConstants
        changed == \/ pc.clampMin[1] # clampMinU
                   \/ pc.clampMin[2] # clampMinV
                   \/ pc.clampMax[1] # clampMaxU
                   \/ pc.clampMax[2] # clampMaxV
    IN  IF ~changed THEN x
        ELSE [FlushVertices(x) EXCEPT
                  !.d.m_pushConstants.clampMin = <<clampMinU, clampMinV>>,
                  !.d.m_pushConstants.clampMax = <<clampMaxU, clampMaxV>>]

SetAlphaBlendingParams(x, alphaFix) ==
    LET changed == x.d.m_pushConstants.alphaFix # alphaFix
    IN  IF ~changed THEN x
        ELSE [FlushVertices(x) EXCEPT !.d.m_pushConstants.alphaFix = alphaFix]

\* the height neither compared nor stored
SetScissor_DropsHeight(x, scissorX, scissorY, scissorWidth, scissorHeight) ==
    LET d == x.d
        changed == \/ d.m_scissorX # scissorX
                   \/ d.m_scissorY # scissorY
                   \/ d.m_scissorWidth # scissorWidth
    IN  IF ~changed THEN x
        ELSE [FlushVertices(x) EXCEPT !.d.m_scissorX = scissorX,
                                      !.d.m_scissorY = scissorY,
                                      !.d.m_scissorWidth = scissorWidth]

SetScissor(x, scissorX, scissorY, scissorWidth, scissorHeight) ==
    LET d == x.d
        changed == \/ d.m_scissorX # scissorX
                   \/ d.m_scissorY # scissorY
                   \/ d.m_scissorWidth # scissorWidth
                   \/ d.m_scissorHeight # scissorHeight
    IN  IF ~changed THEN x
        ELSE [FlushVertices(x) EXCEPT !.d.m_scissorX = scissorX,
                                      !.d.m_scissorY = scissorY,
                                      !.d.m_scissorWidth = scissorWidth,
                                      !.d.m_scissorHeight = scissorHeight]

(***************************************************************************)
(* The callers' inputs.                                                    *)
(***************************************************************************)
\* the runs the GS handler appends: whole triangles that fit the storage
Amounts == {n \in 0..MAX_VERTEX_COUNT : n % 3 = 0}

\* argument lists of n values of which at most one is not zero
ArgLists(n) ==
    {a \in [1..n -> Vals] : Cardinality({i \in 1..n : a[i] # 0}) <= 1}

\* the values of a committed state, by the setter that covers them
GroupValuesOf(c) ==
    LET pc == c.pushConstants
    IN  [SetPipelineCaps |-> <<c.caps>>,
         SetFramebufferParams |-> <<pc.fbBufAddr, pc.fbBufWidth, pc.fbWriteMask>>,
         SetDepthbufferParams |-> <<pc.depthBufAddr, pc.depthBufWidth>>,
         SetTextureParams |-> <<pc.texBufAddr, pc.texBufWidth, pc.texWidth,
                                pc.texHeight, pc.texCsa>>,
         SetTextureAlphaParams |-> <<pc.texA0, pc.texA1>>,
         SetAlphaTestParams |-> <<pc.alphaRef>>,
         SetTextureClampParams |-> <<pc.clampMin[1], pc.clampMin[2],
                                     pc.clampMax[1], pc.clampMax[2]>>,
         SetAlphaBlendingParams |-> <<pc.alphaFix>>,
         SetScissor |-> c.scissor]

GroupValues(d) == GroupValuesOf(Committed(d))

Setters == DOMAIN GroupValues(InitDraw)

\* The callers of the model change one group of values at a time: a setter
\* is given values other than the initial ones only while the values of the
\* other setters are the initial ones.
Allowed(name, args) ==
    \/ args = GroupValues(InitDraw)[name]
    \/ \A other \in Setters \ {name} :
           GroupValues(draw)[other] = GroupValues(InitDraw)[other]

(***************************************************************************)
(* Actions: one per operation of CDraw, and the frame submission of the    *)
(* frame command buffer.                                                   *)
(***************************************************************************)
\* the state an operation starts from: nothing recorded yet
Start ==
    [d |-> draw, e |-> [env EXCEPT !.cmds = <<>>, !.flushCalls = 0]]

\* The vertices of the frame being recorded, as places <<frame slot,
\* position>> of the vertex storage: appended are the places the vertex
\* copies wrote since the last queue submission, drawn the places the draws
\* read since then, both in the order of the commands; submitted holds, for
\* a queue submission made by the last operation, the slot submitted and
\* the two sequences at that moment.  bound is the vertex buffer binding in
\* force while a log is read.
NoBinding == [frame |-> 0, offset |-> 0]

NoTrack ==
    [appended |-> <<>>, drawn |-> <<>>, submitted |-> <<>>,
     bound |-> NoBinding]

Places(frame, first, count) == [k \in 1..count |-> <<frame, first + k - 1>>]

\* what a command does to the vertex storage and the frame: memcpy (line
\* 179), vkCmdBindVertexBuffers (line 235), vkCmdDraw (line 241) and the
\* queue submission of the frame command buffer
TrackCommand(t, c) ==
    CASE c.cmd = "memcpy" ->
             [t EXCEPT !.appended =
                 @ \o Places(c.arg.frame, c.arg.offset, c.arg.amount)]
      [] c.cmd = "vkCmdBindVertexBuffers" ->
             [t EXCEPT !.bound = c.arg]
      [] c.cmd = "vkCmdDraw" ->
             [t EXCEPT !.drawn =
                 @ \o Places(t.bound.frame,
                             (t.bound.offset \div SizeofPrimVertex)
                                 + c.arg.firstVertex,
                             c.arg.vertexCount)]
      [] c.cmd = "vkQueueSubmit" ->
             [t EXCEPT !.submitted =
                           Append(@, [frame |-> c.arg,
                                      appended |-> t.appended,
                                      drawn |-> t.drawn]),
                       !.appended = <<>>,
                       !.drawn = <<>>]
      [] OTHER -> t

RECURSIVE TrackLog(_, _, _)
TrackLog(t, log, i) ==
    IF i > Len(log) THEN t
    ELSE TrackLog(TrackCommand(t, log[i]), log, i + 1)

\* the places after an operation that recorded log.  A post-submission hook
\* called on its own is a frame boundary without a submission: the places
\* of the abandoned frame are forgotten.
Track(name, t, log) ==
    LET after == TrackLog([t EXCEPT !.submitted = <<>>], log, 1)
    IN  IF name = "PostFlushFrameCommandBuffer"
        THEN [after EXCEPT !.appended = <<>>, !.drawn = <<>>,
                           !.bound = NoBinding]
        ELSE [after EXCEPT !.bound = NoBinding]

Call(name, args, result) ==
    /\ env.status = "ok"
    /\ draw' = result.d
    /\ env' = result.e
    /\ op' = [name |-> name, args |-> args,
              preStart |-> draw.m_passVertexStart,
              preEnd |-> draw.m_passVertexEnd,
              lastSet |-> IF name \in Setters
                          THEN [op.lastSet EXCEPT ![name] = args]
                          ELSE op.lastSet,
              track |-> Track(name, op.track, result.e.cmds)]
    /\ UNCHANGED gpu

DoSetPipelineCaps ==
    \E caps \in CapsInputs :
        /\ Allowed("SetPipelineCaps", <<caps>>)
        /\ Call("SetPipelineCaps", <<caps>>, SetPipelineCaps(Start, caps))

DoSetFramebufferParams ==
    \E a \in ArgLists(3) :
        /\ Allowed("SetFramebufferParams", a)
        /\ Call("SetFramebufferParams", a,
                SetFramebufferParams(Start, a[1], a[2], a[3]))

DoSetDepthbufferParams ==
    \E a \in ArgLists(2) :
        /\ Allowed("SetDepthbufferParams", a)
        /\ Call("SetDepthbufferParams", a,
                SetDepthbufferParams(Start, a[1], a[2]))

DoSetTextureParams ==
    \E a \in ArgLists(5) :
        /\ Allowed("SetTextureParams", a)
        /\ Call("SetTextureParams", a,
                SetTextureParams(Start, a[1], a[2], a[3], a[4], a[5]))

DoSetTextureAlphaParams ==
    \E a \in ArgLists(2) :
        /\ Allowed("SetTextureAlphaParams", a)
        /\ Call("SetTextureAlphaParams", a,
                SetTextureAlphaParams(Start, a[1], a[2]))

DoSetAlphaTestParams ==
    \E a \in ArgLists(1) :
        /\ Allowed("SetAlphaTestParams", a)
        /\ Call("SetAlphaTestParams", a, SetAlphaTestParams(Start, a[1]))

DoSetTextureClampParams ==
    \E a \in ArgLists(4) :
        /\ Allowed("SetTextureClampParams", a)
        /\ Call("SetTextureClampParams", a,
                SetTextureClampParams(Start, a[1], a[2], a[3], a[4]))

DoSetAlphaBlendingParams ==
    \E a \in ArgLists(1) :
        /\ Allowed("SetAlphaBlendingParams", a)
        /\ Call("SetAlphaBlendingParams", a,
                SetAlphaBlendingParams(Start, a[1]))

DoSetScissor ==
    \E a \in ArgLists(4) :
        /\ Allowed("SetScissor", a)
        /\ Call("SetScissor", a, SetScissor(Start, a[1], a[2], a[3], a[4]))

DoAddVertices ==
    \E amount \in Amounts :
        Call("AddVertices", <<amount>>, AddVertices(Start, amount))

DoFlushVertices ==
    Call("FlushVertices", <<>>, FlushVertices(Start))

DoPreFlushFrameCommandBuffer ==
    Call("PreFlushFrameCommandBuffer", <<>>, PreFlushFrameCommandBuffer(Start))

DoPostFlushFrameCommandBuffer ==
    Call("PostFlushFrameCommandBuffer", <<>>, PostFlushFrameCommandBuffer(Start))

DoFrameCommandBufferFlush ==
    Call("FrameCommandBufferFlush", <<>>, FrameCommandBufferFlush(Start))

\* no draw in flight
IdleGpu ==
    [caps |-> ZeroCaps, shader |-> Gen({}, <<>>),
     consts |-> ZeroPushConstants,
     tex |-> [texels |-> <<>>, clut |-> <<>>],
     mem |-> [fb |-> <<0, 0, 0, 0>>, depth |-> 0],
     leftover |-> <<0, 0, 0, 0>>,
     frags |-> <<>>]

InitOp ==
    [name |-> "CDraw", args |-> <<>>, preStart |-> 0, preEnd |-> 0,
     lastSet |-> GroupValues(InitDraw), track |-> NoTrack]

Init ==
    /\ draw = InitDraw
    /\ env = InitEnv
    /\ op = InitOp
    /\ gpu = IdleGpu

Next ==
    \/ DoSetPipelineCaps
    \/ DoSetFramebufferParams
    \/ DoSetDepthbufferParams
    \/ DoSetTextureParams
    \/ DoSetTextureAlphaParams
    \/ DoSetAlphaTestParams
    \/ DoSetTextureClampParams
    \/ DoSetAlphaBlendingParams
    \/ DoSetScissor
    \/ DoAddVertices
    \/ DoFlushVertices
    \/ DoPreFlushFrameCommandBuffer
    \/ DoPostFlushFrameCommandBuffer
    \/ DoFrameCommandBufferFlush

Spec == Init /\ [][Next]_vars

(***************************************************************************)
(* The operations of CDraw with the frame hooks called only by the frame   *)
(* submission of the frame command buffer, never on their own.             *)
(***************************************************************************)
SubmissionNext ==
    \/ DoSetPipelineCaps
    \/ DoSetFramebufferParams
    \/ DoSetDepthbufferParams
    \/ DoSetTextureParams
    \/ DoSetTextureAlphaParams
    \/ DoSetAlphaTestParams
    \/ DoSetTextureClampParams
    \/ DoSetAlphaBlendingParams
    \/ DoSetScissor
    \/ DoAddVertices
    \/ DoFlushVertices
    \/ DoFrameCommandBufferFlush

SubmissionSpec == Init /\ [][SubmissionNext]_vars

(***************************************************************************)
(* The fragments of one draw on the device.  All of them cover the same    *)
(* pixel and run the program generated for the capability descriptor of    *)
(* the draw; fragment i comes from a primitive submitted before that of    *)
(* fragment i + 1.  The device runs the invocations concurrently, one      *)
(* instruction at a time; an invocation enters the interlock once every    *)
(* invocation submitted before it has left it.                             *)
(***************************************************************************)
\* capability descriptors of the draws: untextured, 32-bit buffers, both
\* tests passing, the destination pixel read
BaseCaps ==
    [ZeroCaps EXCEPT !.framebufferFormat = PSMCT32,
                     !.depthbufferFormat = PSMZ32,
                     !.alphaTestFunction = ALPHA_TEST_ALWAYS,
                     !.depthTestFunction = DEPTH_TEST_ALWAYS,
                     !.maskColor = 1]

DepthCaps ==
    {[BaseCaps EXCEPT !.depthTestFunction = t, !.writeDepth = w,
                      !.depthbufferFormat = z] :
        t \in {DEPTH_TEST_NEVER, DEPTH_TEST_ALWAYS,
               DEPTH_TEST_GEQUAL, DEPTH_TEST_GREATER},
        w \in {0, 1}, z \in {PSMZ32, PSMZ24, PSMZ16}}

MaskCaps ==
    {[BaseCaps EXCEPT !.hasAlphaBlending = b, !.maskColor = m,
                      !.framebufferFormat = f,
                      !.alphaB = ALPHABLEND_ABD_CD,
                      !.alphaD = ALPHABLEND_ABD_CD] :
        b \in {0, 1}, m \in {0, 1}, f \in {PSMCT32, PSMCT24, PSMCT16}}

AlphaCaps ==
    {[BaseCaps EXCEPT !.alphaTestFunction = a, !.writeDepth = 1,
                      !.depthTestFunction = t] :
        a \in {ALPHA_TEST_ALWAYS, ALPHA_TEST_EQUAL, ALPHA_TEST_GEQUAL},
        t \in {DEPTH_TEST_ALWAYS, DEPTH_TEST_GREATER}}

BlendCaps ==
    {[BaseCaps EXCEPT !.hasAlphaBlending = 1, !.alphaA = a, !.alphaB = b,
                      !.alphaC = c, !.alphaD = d] :
        a \in {ALPHABLEND_ABD_CS, ALPHABLEND_ABD_CD, ALPHABLEND_ABD_ZERO},
        b \in {ALPHABLEND_ABD_CS, ALPHABLEND_ABD_CD, ALPHABLEND_ABD_ZERO},
        c \in {ALPHABLEND_C_AS, ALPHABLEND_C_AD, ALPHABLEND_C_FIX},
        d \in {ALPHABLEND_ABD_CS, ALPHABLEND_ABD_CD, ALPHABLEND_ABD_ZERO}}

TextureCaps ==
    {[BaseCaps EXCEPT !.hasTexture = 1, !.textureFormat = f,
                      !.textureFunction = t, !.textureHasAlpha = h,
                      !.texClampU = CLAMP_MODE_CLAMP] :
        f \in {PSMCT32, PSMCT24, PSMT8, PSMT4},
        t \in {TEX0_FUNCTION_MODULATE, TEX0_FUNCTION_DECAL,
               TEX0_FUNCTION_HIGHLIGHT2},
        h \in {0, 1}}

\* colours of full, 128/255, 127/255 and no alpha
Colors ==
    <<<<FloatOne, 0, 0, FloatOne>>, <<0, FloatOne, 0, 256>>,
      <<255, 255, FloatOne, 255>>, <<0, 0, FloatOne, 0>>>>

Depths == {1, 2, 65539}

\* all bits, no bit, the bits of the red and blue channels
WriteMasks == {-1, 0, 16711935}

Leftovers == {<<0, 0, 0, 0>>, <<255, 255, 255, 255>>}

\* the number of fragments of the draw that cover the pixel
MaxFragments == 2

Fragments == 1..MaxFragments

DefaultInput(i) ==
    [color |-> Colors[((i - 1) % Len(Colors)) + 1], depth |-> 2,
     texelPos |-> <<i % 2, 0>>]

DefaultInputs == [i \in Fragments |-> DefaultInput(i)]

\* push constants as the setters of CDraw commit them
DrawConsts ==
    [ZeroPushConstants EXCEPT !.fbWriteMask = -1, !.alphaRef = 128,
                              !.alphaFix = 255, !.texWidth = 2,
                              !.texHeight = 1, !.texA1 = 255]

\* a 2 x 1 texture and a look-up table of two colours
DrawTexture ==
    [texels |-> [pos \in {<<0, 0>>, <<1, 0>>} |->
                    IF pos[1] = 0 THEN <<0, 0, 0, 0>> ELSE <<1, 128, 255, 128>>],
     clut |-> [i \in 0..1 |->
                  IF i = 0 THEN <<255, 0, 0, 255>> ELSE <<0, 0, 255, 128>>]]

\* green, opaque; depth 2
DrawMemory == [fb |-> <<0, 255, 0, 255>>, depth |-> 2]

Scenario(caps, consts, inputs, leftover) ==
    [caps |-> caps, consts |-> consts, inputs |-> inputs,
     leftover |-> leftover]

Scenarios ==
    {Scenario(c, DrawConsts,
              [i \in Fragments |-> [DefaultInput(i) EXCEPT !.depth = d[i]]],
              <<0, 0, 0, 0>>) :
        c \in DepthCaps, d \in [Fragments -> Depths]}
    \cup {Scenario(c, [DrawConsts EXCEPT !.fbWriteMask = m], DefaultInputs, l) :
            c \in MaskCaps, m \in WriteMasks, l \in Leftovers}
    \cup {Scenario(c, [DrawConsts EXCEPT !.alphaRef = r],
                   [DefaultInputs EXCEPT ![1].color = Colors[k]],
                   <<0, 0, 0, 0>>) :
            c \in AlphaCaps, r \in {0, 128, 255}, k \in 1..Len(Colors)}
    \cup {Scenario(c, [DrawConsts EXCEPT !.alphaFix = a], DefaultInputs,
                   <<0, 0, 0, 0>>) :
            c \in BlendCaps, a \in {128, 255}}
    \cup {Scenario(c, DrawConsts, DefaultInputs, <<0, 0, 0, 0>>) :
            c \in TextureCaps}

\* the draw on the device: the program of its pipeline, one invocation per
\* fragment
Launch(sc) ==
    [caps |-> sc.caps, shader |-> CreateFragmentShader(sc.caps),
     consts |-> sc.consts, tex |-> DrawTexture, mem |-> DrawMemory,
     leftover |-> sc.leftover,
     frags |-> [i \in Fragments |-> NewFragment(sc.inputs[i], sc.leftover)]]

Running(i) == gpu.frags[i].ip <= Len(gpu.shader.code)

Current(i) == gpu.shader.code[gpu.frags[i].ip]

\* the invocation is past its EndInvocationInterlock
Left(i) ==
    /\ ~gpu.frags[i].locked
    /\ \E n \in 1..(gpu.frags[i].ip - 1) :
           gpu.shader.code[n].op = "EndInvocationInterlock"

Step(i) ==
    LET done == Execute(Current(i), gpu.frags[i], gpu.consts, gpu.tex, gpu.mem)
    IN  /\ gpu' = [gpu EXCEPT !.frags[i] = [done.f EXCEPT !.ip = @ + 1],
                              !.mem = done.mem]
        /\ UNCHANGED <<draw, env, op>>

\* BeginInvocationInterlock: waits for the fragments submitted before
EnterInterlock ==
    \E i \in Fragments :
        /\ Running(i)
        /\ Current(i).op = "BeginInvocationInterlock"
        /\ \A j \in 1..(i - 1) : Left(j)
        /\ Step(i)

ExecuteInstruction ==
    \E i \in Fragments :
        /\ Running(i)
        /\ Current(i).op # "BeginInvocationInterlock"
        /\ Step(i)

FragmentInit ==
    /\ draw = InitDraw
    /\ env = InitEnv
    /\ op = InitOp
    /\ \E sc \in Scenarios : gpu = Launch(sc)

FragmentNext == EnterInterlock \/ ExecuteInstruction

FragmentSpec == FragmentInit /\ [][FragmentNext]_vars

(***************************************************************************)
(* Reading the command log of the last operation.                          *)
(***************************************************************************)
Positions(log, name) == {i \in 1..Len(log) : log[i].cmd = name}

Count(log, name) == Cardinality(Positions(log, name))

\* the argument of the only command of that name in the log
ArgOf(log, name) == log[CHOOSE i \in Positions(log, name) : TRUE].arg

PositionOf(log, name) == CHOOSE i \in Positions(log, name) : TRUE

\* the state a draw of the log is issued with: the capability descriptor
\* the bound pipeline was made for, the push constants, the scissor
DrawnWith(log) ==
    [caps |-> ArgOf(log, "vkCmdBindPipeline").handle[1],
     pushConstants |-> ArgOf(log, "vkCmdPushConstants"),
     scissor |-> ArgOf(log, "vkCmdSetScissor")]

BatchPending(d) == d.m_passVertexStart < d.m_passVertexEnd

(***************************************************************************)
(* C1: every draw is issued with the capability descriptor, the push       *)
(* constants and the scissor that were committed when each vertex of the   *)
(* drawn batch was appended; the open batch never holds vertices appended  *)
(* under two committed states; a setter that draws the pending batch draws *)
(* it with the old values, which differ from the ones it then stores.      *)
(***************************************************************************)
C1_UniformBatchState ==
    /\ env.batchStates = IF BatchPending(draw) THEN {Committed(draw)} ELSE {}
    /\ Count(env.cmds, "vkCmdDraw") <= 1
    /\ Count(env.cmds, "vkCmdDraw") = 1 =>
          /\ ArgOf(env.cmds, "vkCmdDraw").batchStates = {DrawnWith(env.cmds)}
          /\ op.name \in Setters =>
                /\ GroupValues(draw)[op.name] = op.args
                /\ DrawnWith(env.cmds) # Committed(draw)
                /\ \A other \in Setters \ {op.name} :
                       GroupValues(draw)[other] =
                           GroupValuesOf(DrawnWith(env.cmds))[other]

\* a setter changed its values while a batch was pending and drew it
C1_Witness ==
    /\ op.name = "SetTextureParams"
    /\ op.preStart < op.preEnd
    /\ Count(env.cmds, "vkCmdDraw") = 1
    /\ BatchPending(draw) = FALSE

(***************************************************************************)
(* C2: a setter called with the values already committed for the fields it *)
(* covers does nothing: no FlushVertices call, no command recorded (so no  *)
(* draw), even with a batch pending; the committed state, both cursors and *)
(* both caches stay as they are.                                           *)
(***************************************************************************)
C2_SameValuesNoOp ==
    [][(op'.name \in Setters /\ GroupValues(draw)[op'.name] = op'.args) =>
          /\ draw' = draw
          /\ env'.cmds = <<>>
          /\ env'.flushCalls = 0
          /\ env' = [env EXCEPT !.cmds = <<>>, !.flushCalls = 0]]_vars

\* framebuffer parameters set to the committed values over a pending batch
C2_Witness ==
    /\ op.name = "SetFramebufferParams"
    /\ op.args = GroupValues(draw)["SetFramebufferParams"]
    /\ op.args # <<0, 0, 0>>
    /\ env.flushCalls = 0
    /\ env.cmds = <<>>
    /\ BatchPending(draw)

(***************************************************************************)
(* C3: after any sequence of setter calls the committed state holds, for   *)
(* each field, the value last given to its setter; a setter calls          *)
(* FlushVertices exactly once when it changes a value and not at all when  *)
(* it does not, within the call that makes the change, and touches no      *)
(* field of another setter.                                                *)
(***************************************************************************)
C3_LastValueOneFlushPerChange ==
    /\ [](GroupValues(draw) = op.lastSet)
    /\ [][op'.name \in Setters =>
             /\ GroupValues(draw')[op'.name] = op'.args
             /\ \A other \in Setters \ {op'.name} :
                    GroupValues(draw')[other] = GroupValues(draw)[other]
             /\ env'.flushCalls =
                    IF GroupValues(draw)[op'.name] # op'.args THEN 1 ELSE 0
             /\ Count(env'.cmds, "vkCmdDraw") <= env'.flushCalls]_vars

\* a change of the scissor with no batch pending: one FlushVertices call,
\* nothing drawn, the new rectangle committed
C3_Witness ==
    /\ op.name = "SetScissor"
    /\ op.args = <<0, 0, 0, 1>>
    /\ <<draw.m_scissorX, draw.m_scissorY,
         draw.m_scissorWidth, draw.m_scissorHeight>> = op.args
    /\ env.flushCalls = 1
    /\ env.cmds = <<>>

C5_OnePipelinePerCaps ==
    /\ [](/\ \A caps \in CapsInputs : env.pipelinesCreated[caps] <= 1
          /\ \A caps \in DOMAIN draw.m_pipelineCache :
                 draw.m_pipelineCache[caps].handle = <<caps, 1>>
          /\ Count(env.cmds, "vkCmdDraw") = 1 =>
                 LET bound == ArgOf(env.cmds, "vkCmdBindPipeline")
                     drawn == ArgOf(env.cmds, "vkCmdDraw").batchStates
                 IN  /\ \A st \in drawn : bound.handle[1] = st.caps
                     /\ bound.handle[1] \in DOMAIN draw.m_pipelineCache
                     /\ bound = draw.m_pipelineCache[bound.handle[1]])
    /\ [][/\ \A caps \in DOMAIN draw.m_pipelineCache :
                 /\ caps \in DOMAIN draw'.m_pipelineCache
                 /\ draw'.m_pipelineCache[caps] = draw.m_pipelineCache[caps]
          /\ Count(env'.cmds, "CreateDrawPipeline") <= 1
          /\ Count(env'.cmds, "CreateDrawPipeline") = 1 =>
                 /\ draw.m_pipelineCaps \notin DOMAIN draw.m_pipelineCache
                 /\ ArgOf(env'.cmds, "CreateDrawPipeline").handle[1] =
                        draw.m_pipelineCaps
                 /\ Count(env'.cmds, "vkCmdDraw") = 1]_vars

\* a batch drawn under changed texture parameters with the pipeline made in
\* an earlier flush
C5_Witness ==
    /\ Count(env.cmds, "vkCmdDraw") = 1
    /\ Count(env.cmds, "CreateDrawPipeline") = 0
    /\ ArgOf(env.cmds, "vkCmdPushConstants").texWidth = 1
    /\ ArgOf(env.cmds, "vkCmdBindPipeline") =
           draw.m_pipelineCache[ArgOf(env.cmds, "vkCmdBindPipeline").handle[1]]

(***************************************************************************)
(* C6: descriptor sets are per subset key.  A set is allocated and written *)
(* at most once per key, also when the key comes from different capability *)
(* descriptors; a draw binds the set the cache holds for the key of the    *)
(* descriptor it is drawn under; an entry is never removed or rewritten.   *)
(***************************************************************************)
C6_OneDescriptorSetPerKey ==
    /\ [](/\ \A key \in DOMAIN env.setsAllocated : env.setsAllocated[key] <= 1
          /\ \A key \in DOMAIN draw.m_descriptorSetCache :
                 draw.m_descriptorSetCache[key].handle = <<key, 1>>
          /\ Count(env.cmds, "vkCmdDraw") = 1 =>
                 LET key == DescriptorSetCapsOf(
                                ArgOf(env.cmds, "vkCmdBindPipeline").handle[1])
                 IN  /\ key \in DOMAIN draw.m_descriptorSetCache
                     /\ ArgOf(env.cmds, "vkCmdBindDescriptorSets") =
                            draw.m_descriptorSetCache[key])
    /\ [][/\ \A key \in DOMAIN draw.m_descriptorSetCache :
                 /\ key \in DOMAIN draw'.m_descriptorSetCache
                 /\ draw'.m_descriptorSetCache[key] =
                        draw.m_descriptorSetCache[key]
          /\ Count(env'.cmds, "vkAllocateDescriptorSets") =
                 Count(env'.cmds, "vkUpdateDescriptorSets")
          /\ Count(env'.cmds, "vkAllocateDescriptorSets") =
                 Cardinality(DOMAIN draw'.m_descriptorSetCache
                             \ DOMAIN draw.m_descriptorSetCache)]_vars

\* a draw under a capability descriptor seen for the first time (its
\* pipeline is created) that binds the set made under another descriptor
C6_Witness ==
    /\ Count(env.cmds, "vkCmdDraw") = 1
    /\ Count(env.cmds, "CreateDrawPipeline") = 1
    /\ Count(env.cmds, "vkAllocateDescriptorSets") = 0
    /\ ArgOf(env.cmds, "vkCmdBindDescriptorSets").handle[2] = 1

(***************************************************************************)
(* C7: AddVertices forces a frame submission exactly when passVertexEnd +  *)
(* amount exceeds MAX_VERTEX_COUNT, once, and before the run is copied;    *)
(* the capacity assertion then holds and the run is copied to position 0   *)
(* of the new frame slot.  A run that brings the total of two runs to      *)
(* MAX_VERTEX_COUNT + 1 is such a case: one submission, between the runs.  *)
(***************************************************************************)
C7_ForcedSubmission ==
    /\ [](env.status # "assert_capacity")
    /\ [][op'.name = "AddVertices" =>
             LET amount == op'.args[1]
                 over == draw.m_passVertexEnd + amount > MAX_VERTEX_COUNT
                 log == env'.cmds
             IN  /\ Count(log, "vkQueueSubmit") = IF over THEN 1 ELSE 0
                 /\ Count(log, "memcpy") = 1
                 /\ PositionOf(log, "memcpy") = Len(log)
                 /\ ArgOf(log, "memcpy").amount = amount
                 /\ ArgOf(log, "memcpy").frame = env'.currentFrame
                 /\ draw'.m_passVertexEnd = ArgOf(log, "memcpy").offset + amount
                 /\ draw'.m_passVertexEnd <= MAX_VERTEX_COUNT
                 /\ over =>
                        /\ ArgOf(log, "vkQueueSubmit") = env.currentFrame
                        /\ ArgOf(log, "memcpy").offset = 0
                        /\ env'.currentFrame # env.currentFrame
                 /\ ~over =>
                        /\ ArgOf(log, "memcpy").offset = draw.m_passVertexEnd
                        /\ env'.currentFrame = env.currentFrame]_vars

\* a second run that brings the total to MAX_VERTEX_COUNT + 1: the frame
\* was submitted once, the first run was drawn in it, the second run opens
\* the next frame
C7_Witness ==
    /\ op.name = "AddVertices"
    /\ op.preStart = 0
    /\ op.preEnd + op.args[1] = MAX_VERTEX_COUNT + 1
    /\ op.preEnd <= MAX_VERTEX_COUNT
    /\ op.args[1] <= MAX_VERTEX_COUNT
    /\ Count(env.cmds, "vkQueueSubmit") = 1
    /\ Count(env.cmds, "vkCmdDraw") = 1
    /\ draw.m_passVertexStart = 0
    /\ draw.m_passVertexEnd = op.args[1]
    /\ env.status = "ok"

(***************************************************************************)
(* C8: FlushVertices on an empty batch records no command, creates no      *)
(* pipeline and no descriptor set, and leaves the cursors, the committed   *)
(* state and the caches as they are.                                       *)
(***************************************************************************)
C8_EmptyFlushNoOp ==
    [][(op'.name = "FlushVertices"
        /\ draw.m_passVertexStart = draw.m_passVertexEnd) =>
          /\ env'.cmds = <<>>
          /\ draw' = draw
          /\ env'.pipelinesCreated = env.pipelinesCreated
          /\ env'.setsAllocated = env.setsAllocated
          /\ env'.currentFrame = env.currentFrame]_vars

\* FlushVertices called right after a batch was drawn, under a capability
\* descriptor for which no pipeline exists
C8_Witness ==
    /\ op.name = "FlushVertices"
    /\ op.preStart = op.preEnd
    /\ op.preEnd > 0
    /\ draw.m_pipelineCaps \notin DOMAIN draw.m_pipelineCache
    /\ env.cmds = <<>>

(***************************************************************************)
(* C9: FlushVertices on a non-empty batch issues one draw covering the     *)
(* batch: the vertex buffer of the current frame bound at byte offset      *)
(* passVertexStart * sizeof(PRIM_VERTEX), passVertexEnd - passVertexStart  *)
(* vertices from first vertex 0; afterwards passVertexStart equals         *)
(* passVertexEnd, which has not moved.                                     *)
(***************************************************************************)
C9_OneDrawCoversBatch ==
    [][(op'.name = "FlushVertices"
        /\ draw.m_passVertexStart # draw.m_passVertexEnd) =>
          LET log == env'.cmds
          IN  /\ Count(log, "vkCmdDraw") = 1
              /\ Count(log, "vkCmdBindVertexBuffers") = 1
              /\ PositionOf(log, "vkCmdBindVertexBuffers")
                     < PositionOf(log, "vkCmdDraw")
              /\ ArgOf(log, "vkCmdBindVertexBuffers") =
                     [frame |-> env.currentFrame,
                      offset |-> draw.m_passVertexStart * SizeofPrimVertex]
              /\ ArgOf(log, "vkCmdDraw").vertexCount =
                     draw.m_passVertexEnd - draw.m_passVertexStart
              /\ ArgOf(log, "vkCmdDraw").instanceCount = 1
              /\ ArgOf(log, "vkCmdDraw").firstVertex = 0
              /\ draw'.m_passVertexStart = draw.m_passVertexEnd
              /\ draw'.m_passVertexEnd = draw.m_passVertexEnd]_vars

\* the second batch of a frame, drawn from its byte offset
C9_Witness ==
    /\ op.name = "FlushVertices"
    /\ op.preStart = 3
    /\ op.preEnd = 6
    /\ Count(env.cmds, "vkCmdDraw") = 1
    /\ ArgOf(env.cmds, "vkCmdBindVertexBuffers").offset = 3 * SizeofPrimVertex
    /\ draw.m_passVertexStart = 6
    /\ draw.m_passVertexEnd = 6

(***************************************************************************)
(* C10: the pre-submission hook draws a pending batch under the current    *)
(* state and the post-submission hook sets both cursors to zero; a frame   *)
(* submission (pre-hook, submit, post-hook) draws the pending batch before *)
(* the submit and leaves an empty batch at cursor 0 with the committed     *)
(* state untouched.                                                        *)
(***************************************************************************)
C10_FrameBoundary ==
    [][/\ op'.name = "PreFlushFrameCommandBuffer" =>
             /\ Count(env'.cmds, "vkCmdDraw") =
                    IF BatchPending(draw) THEN 1 ELSE 0
             /\ BatchPending(draw) =>
                    /\ DrawnWith(env'.cmds) = Committed(draw)
                    /\ ArgOf(env'.cmds, "vkCmdDraw").vertexCount =
                           draw.m_passVertexEnd - draw.m_passVertexStart
             /\ ~BatchPending(draw')
             /\ draw'.m_passVertexEnd = draw.m_passVertexEnd
       /\ op'.name = "PostFlushFrameCommandBuffer" =>
             /\ draw'.m_passVertexStart = 0
             /\ draw'.m_passVertexEnd = 0
             /\ env'.cmds = <<>>
       /\ Count(env'.cmds, "vkQueueSubmit") = 1 =>
             /\ op'.name \in {"FrameCommandBufferFlush", "AddVertices"}
             /\ Count(env'.cmds, "vkCmdDraw") =
                    IF BatchPending(draw) THEN 1 ELSE 0
             /\ BatchPending(draw) =>
                    /\ PositionOf(env'.cmds, "vkCmdDraw")
                           < PositionOf(env'.cmds, "vkQueueSubmit")
                    /\ DrawnWith(env'.cmds) = Committed(draw)
                    /\ ArgOf(env'.cmds, "vkCmdBindVertexBuffers") =
                           [frame |-> env.currentFrame,
                            offset |-> draw.m_passVertexStart * SizeofPrimVertex]
                    /\ ArgOf(env'.cmds, "vkCmdDraw").vertexCount =
                           draw.m_passVertexEnd - draw.m_passVertexStart
             /\ ArgOf(env'.cmds, "vkQueueSubmit") = env.currentFrame
             /\ draw'.m_passVertexStart = 0
             /\ draw'.m_passVertexEnd =
                    IF op'.name = "AddVertices" THEN op'.args[1] ELSE 0
             /\ Committed(draw') = Committed(draw)]_vars

\* a frame submitted with a batch pending behind a drawn one
C10_Witness ==
    /\ op.name = "FrameCommandBufferFlush"
    /\ op.preStart = 3
    /\ op.preEnd = 6
    /\ Count(env.cmds, "vkCmdDraw") = 1
    /\ Count(env.cmds, "vkQueueSubmit") = 1
    /\ draw.m_passVertexStart = 0
    /\ draw.m_passVertexEnd = 0

(***************************************************************************)
(* Reading the fragments of a draw.                                        *)
(***************************************************************************)
AccessesOf(f, name) ==
    {n \in 1..Len(f.accesses) : f.accesses[n].access = name}

AccessOf(f, name) == f.accesses[CHOOSE n \in AccessesOf(f, name) : TRUE]

AllDone == \A i \in Fragments : ~Running(i)

\* the memory after the first k fragments of the draw, had the device run
\* them one at a time in the order of submission
RECURSIVE InOrder(_)
InOrder(k) ==
    IF k = 0 THEN DrawMemory
    ELSE RunFragment(gpu.shader.code,
                     NewFragment(gpu.frags[k].input, gpu.leftover),
                     gpu.consts, gpu.tex, InOrder(k - 1)).mem

(***************************************************************************)
(* C11: every access of a fragment to the destination (the reads of the    *)
(* destination colour and depth, the writes of the framebuffer and the     *)
(* depthbuffer) is made inside the invocation interlock; no two fragments  *)
(* of the pixel are inside it together; and once all fragments have run,   *)
(* the memory holds what running them one at a time in submission order    *)
(* gives.                                                                  *)
(***************************************************************************)
C11_InterlockedInOrder ==
    /\ \A i \in DOMAIN gpu.frags :
           \A n \in 1..Len(gpu.frags[i].accesses) :
               gpu.frags[i].accesses[n].locked
    /\ Cardinality({i \in DOMAIN gpu.frags : gpu.frags[i].locked}) <= 1
    /\ (gpu.frags # <<>> /\ AllDone) => gpu.mem = InOrder(MaxFragments)

\* two blended fragments: the second read the pixel the first had written
C11_Witness ==
    /\ gpu.frags # <<>>
    /\ AllDone
    /\ gpu.caps.hasAlphaBlending = 1
    /\ AccessesOf(gpu.frags[1], "WriteToFramebuffer") # {}
    /\ AccessesOf(gpu.frags[2], "WriteToFramebuffer") # {}
    /\ AccessOf(gpu.frags[2], "ReadDstColor").before =
           AccessOf(gpu.frags[1], "WriteToFramebuffer").after
    /\ AccessOf(gpu.frags[2], "ReadDstColor").before # DrawMemory.fb
    /\ gpu.mem.fb = AccessOf(gpu.frags[2], "WriteToFramebuffer").after

\* the fragment has executed the instructions up to its last op instruction
Past(i, name) ==
    \E n \in 1..(gpu.frags[i].ip - 1) : gpu.shader.code[n].op = name

\* the width of the words of a depthbuffer format
DepthModulus(depthbufferFormat) ==
    CASE depthbufferFormat = PSMZ32 -> 0
      [] depthbufferFormat = PSMZ24 -> 16777216
      [] depthbufferFormat \in {PSMZ16, PSMZ16S} -> 65536

\* the depth test of the claim, against the depth word found in memory
DepthPasses(caps, srcDepth, word) ==
    LET dstDepth == IF DepthModulus(caps.depthbufferFormat) = 0 THEN word
                    ELSE word % DepthModulus(caps.depthbufferFormat)
    IN  CASE caps.depthTestFunction = DEPTH_TEST_ALWAYS -> TRUE
          [] caps.depthTestFunction = DEPTH_TEST_NEVER -> FALSE
          [] caps.depthTestFunction = DEPTH_TEST_GEQUAL -> srcDepth >= dstDepth
          [] caps.depthTestFunction = DEPTH_TEST_GREATER -> srcDepth > dstDepth

NeedsDstDepth(caps) ==
    caps.depthTestFunction \in {DEPTH_TEST_GEQUAL, DEPTH_TEST_GREATER}

\* whether fragment i, which has left the interlock, passed the depth test
\* of the claim
Passed(i) ==
    DepthPasses(gpu.caps, gpu.frags[i].input.depth,
                IF NeedsDstDepth(gpu.caps)
                THEN AccessOf(gpu.frags[i], "GetDepth").before ELSE 0)

(***************************************************************************)
(* C12: a fragment changes the memory only if its depth test passes        *)
(* (always: pass; never: fail; greater-or-equal: srcDepth >= dstDepth;     *)
(* strictly greater: srcDepth > dstDepth).  The destination depth is read  *)
(* exactly under the last two functions.  A passing fragment writes the    *)
(* framebuffer, and the depthbuffer only if the write-depth flag is set;   *)
(* a failing one writes neither.                                           *)
(***************************************************************************)
C12_DepthTestGatesWrites ==
    /\ [](\A i \in DOMAIN gpu.frags :
            Past(i, "EndInvocationInterlock") =>
                LET f == gpu.frags[i]
                IN  /\ (AccessesOf(f, "GetDepth") # {}) = NeedsDstDepth(gpu.caps)
                    /\ Cardinality(AccessesOf(f, "GetDepth")) <= 1
                    /\ Cardinality(AccessesOf(f, "WriteToFramebuffer")) =
                           (IF Passed(i) THEN 1 ELSE 0)
                    /\ Cardinality(AccessesOf(f, "WriteToDepthbuffer")) =
                           (IF Passed(i) /\ gpu.caps.writeDepth = 1
                            THEN 1 ELSE 0))
    /\ [][gpu'.mem # gpu.mem =>
            \E i \in DOMAIN gpu.frags :
                /\ gpu'.frags[i] # gpu.frags[i]
                /\ Passed(i)
                /\ gpu.caps.depthTestFunction # DEPTH_TEST_NEVER]_vars

\* greater-or-equal with depth writes: the first fragment passed on equal
\* depths and wrote both buffers, the second failed and wrote nothing
C12_Witness ==
    /\ gpu.frags # <<>>
    /\ AllDone
    /\ gpu.caps.depthTestFunction = DEPTH_TEST_GEQUAL
    /\ gpu.caps.writeDepth = 1
    /\ gpu.frags[1].input.depth = AccessOf(gpu.frags[1], "GetDepth").before
    /\ AccessesOf(gpu.frags[1], "WriteToDepthbuffer") # {}
    /\ AccessesOf(gpu.frags[1], "WriteToFramebuffer") # {}
    /\ gpu.frags[2].input.depth < AccessOf(gpu.frags[2], "GetDepth").before
    /\ AccessesOf(gpu.frags[2], "WriteToDepthbuffer") = {}
    /\ AccessesOf(gpu.frags[2], "WriteToFramebuffer") = {}

\* the bytes a framebuffer format stores for a pixel
PixelBytes(framebufferFormat) ==
    CASE framebufferFormat = PSMCT32 -> 1..4
      [] framebufferFormat = PSMCT24 -> 1..3
      [] framebufferFormat \in {PSMCT16, PSMCT16S} -> 1..2

PackedColor(framebufferFormat, color) ==
    IF framebufferFormat \in {PSMCT16, PSMCT16S}
    THEN Vec4ToPSM16(color) ELSE Vec4ToPSM32(color)

\* a framebuffer write that stored the new colour where the mask has a 1 and
\* left what the memory held where it has a 0
MergedUnderMask(f, write) ==
    LET mask == ToUintWord(gpu.consts.fbWriteMask)
        packed == PackedColor(gpu.caps.framebufferFormat, f.dstColor)
    IN  \A b \in PixelBytes(gpu.caps.framebufferFormat) :
            /\ BitAnd(write.after[b], mask[b]) = BitAnd(packed[b], mask[b])
            /\ BitAnd(write.after[b], 255 - mask[b]) =
                   BitAnd(write.before[b], 255 - mask[b])

(***************************************************************************)
(* C13: whenever a fragment writes the framebuffer, the stored pixel is    *)
(* the packed new colour in the bits the write mask sets and the pixel the *)
(* memory held before the write in the bits it clears, for every           *)
(* capability descriptor, also with blending disabled and the colour-mask  *)
(* flag clear.                                                             *)
(***************************************************************************)
C13_MaskedBitsKept ==
    \A i \in DOMAIN gpu.frags :
        \A n \in AccessesOf(gpu.frags[i], "WriteToFramebuffer") :
            MergedUnderMask(gpu.frags[i], gpu.frags[i].accesses[n])

\* an alpha in [0, 1] quantised to 8 bits: the q with q/255 <= alpha and
\* alpha < (q + 1)/255
Quantized(alpha) ==
    CHOOSE q \in 0..255 :
        /\ q * FloatOne <= alpha * 255
        /\ alpha * 255 < (q + 1) * FloatOne

(***************************************************************************)
(* C14: the alpha test compares the alpha of the texture stage, quantised  *)
(* to 8 bits, with the reference value: 'always' accepts every alpha,      *)
(* 'equal' accepts exactly alpha = reference, 'greater-or-equal' exactly   *)
(* alpha >= reference.                                                     *)
(***************************************************************************)
C14_AlphaTest ==
    \A i \in DOMAIN gpu.frags :
        Past(i, "AlphaTest") =>
            LET alpha == Quantized(gpu.frags[i].textureColor[4])
                alphaRef == gpu.consts.alphaRef
                function == gpu.caps.alphaTestFunction
            IN  /\ function = ALPHA_TEST_ALWAYS =>
                       gpu.frags[i].alphaTestResult
                /\ function = ALPHA_TEST_EQUAL =>
                       (gpu.frags[i].alphaTestResult <=> alpha = alphaRef)
                /\ function = ALPHA_TEST_GEQUAL =>
                       (gpu.frags[i].alphaTestResult <=> alpha >= alphaRef)

\* 'equal' with reference 128: an alpha of 127/255 rejected, one of 128/255
\* accepted
C14_Witness ==
    /\ gpu.frags # <<>>
    /\ AllDone
    /\ gpu.caps.alphaTestFunction = ALPHA_TEST_EQUAL
    /\ gpu.consts.alphaRef = 128
    /\ Quantized(gpu.frags[1].textureColor[4]) = 127
    /\ ~gpu.frags[1].alphaTestResult
    /\ Quantized(gpu.frags[2].textureColor[4]) = 128
    /\ gpu.frags[2].alphaTestResult

\* the destination colour a fragment found in memory, in the format of the
\* framebuffer
FoundColor(f) ==
    LET word == AccessOf(f, "ReadDstColor").before
        format == gpu.caps.framebufferFormat
    IN  CASE format = PSMCT32 -> PSM32ToVec4(word)
          [] format = PSMCT24 -> PSM32ToVec4(<<word[1], word[2], word[3], 0>>)
          [] format \in {PSMCT16, PSMCT16S} ->
                 PSM16ToVec4(<<word[1], word[2], 0, 0>>)

\* the term a selector of A, B or D names, for channel ch
TermABD(sel, src, dst, ch) ==
    CASE sel = ALPHABLEND_ABD_CS -> src[ch]
      [] sel = ALPHABLEND_ABD_CD -> dst[ch]
      [] sel = ALPHABLEND_ABD_ZERO -> 0

TermC(sel, src, dst, fix) ==
    CASE sel = ALPHABLEND_C_AS -> src[4]
      [] sel = ALPHABLEND_C_AD -> dst[4]
      [] sel = ALPHABLEND_C_FIX -> fix

\* ((A - B) * C * 2) + D for channel ch, in units of 1/510 squared
Unclamped(caps, src, dst, fix, ch) ==
    ((TermABD(caps.alphaA, src, dst, ch) - TermABD(caps.alphaB, src, dst, ch))
         * TermC(caps.alphaC, src, dst, fix) * 2)
    + (TermABD(caps.alphaD, src, dst, ch) * FloatOne)

\* v is the value of n / 510 clamped to [0, 1], to the precision of a float
\* of the model
IsClamped(v, n) ==
    IF n <= 0 THEN v = 0
    ELSE IF n >= FloatOne * FloatOne THEN v = FloatOne
    ELSE v * FloatOne <= n /\ n < (v + 1) * FloatOne

(***************************************************************************)
(* C15: with blending enabled the destination colour is                    *)
(* clamp(((A - B) * C * 2) + D, 0, 1) per RGB channel, A, B and D selected *)
(* from the source colour, the destination colour and zero, C from the     *)
(* source alpha, the destination alpha and the fixed constant, and its     *)
(* alpha is the alpha of the texture stage; with blending disabled it is   *)
(* the colour of the texture stage.                                        *)
(***************************************************************************)
C15_Blending ==
    \A i \in DOMAIN gpu.frags :
        LET f == gpu.frags[i]
        IN  /\ Past(i, "CopyColor") =>
                   gpu.caps.hasAlphaBlending = 0 /\ f.dstColor = f.textureColor
            /\ Past(i, "Blend") =>
                   /\ gpu.caps.hasAlphaBlending = 1
                   /\ \A ch \in 1..3 :
                          IsClamped(f.dstColor[ch],
                                    Unclamped(gpu.caps, f.textureColor,
                                              FoundColor(f),
                                              (gpu.consts.alphaFix * FloatOne)
                                                  \div 255,
                                              ch))
                   /\ f.dstColor[4] = f.textureColor[4]
            /\ gpu.frags[i].ip > Len(gpu.shader.code) =>
                   Past(i, "Blend") = (gpu.caps.hasAlphaBlending = 1)

\* A = source, B = destination, C = fixed 1.0, D = zero on the source
\* (1, 0, 0, 1) and the destination (0, 1, 0, 1): (2, -2, 0) before the
\* clamp, (1, 0, 0) after it
C15_Witness ==
    /\ gpu.frags # <<>>
    /\ Past(1, "Blend")
    /\ gpu.caps.alphaA = ALPHABLEND_ABD_CS
    /\ gpu.caps.alphaB = ALPHABLEND_ABD_CD
    /\ gpu.caps.alphaC = ALPHABLEND_C_FIX
    /\ gpu.caps.alphaD = ALPHABLEND_ABD_ZERO
    /\ gpu.consts.alphaFix = 255
    /\ gpu.frags[1].textureColor = <<FloatOne, 0, 0, FloatOne>>
    /\ FoundColor(gpu.frags[1]) = <<0, FloatOne, 0, FloatOne>>
    /\ [ch \in 1..3 |->
           Unclamped(gpu.caps, gpu.frags[1].textureColor,
                     FoundColor(gpu.frags[1]), FloatOne, ch)] =
           <<2 * FloatOne * FloatOne, (0 - 2) * FloatOne * FloatOne, 0>>
    /\ gpu.frags[1].dstColor = <<FloatOne, 0, 0, FloatOne>>

(***************************************************************************)
(* Draws under textured capability descriptors: the operations of CDraw    *)
(* that reach the caches, with the capability descriptors drawn from       *)
(* TexturedCapsInputs and the push constants and scissor left as           *)
(* constructed.                                                            *)
(***************************************************************************)
DoSetTexturedPipelineCaps ==
    \E caps \in TexturedCapsInputs :
        Call("SetPipelineCaps", <<caps>>, SetPipelineCaps(Start, caps))

BindingNext ==
    \/ DoSetTexturedPipelineCaps
    \/ DoAddVertices
    \/ DoFlushVertices
    \/ DoFrameCommandBufferFlush

BindingSpec == Init /\ [][BindingNext]_vars

(***************************************************************************)
(* C17: the descriptor set bound with a pipeline.                          *)
(***************************************************************************)
\* the bindings the claim names for a capability descriptor
ExpectedBindings(caps) ==
    {b \in {DESCRIPTOR_LOCATION_BUFFER_MEMORY,
            DESCRIPTOR_LOCATION_IMAGE_SWIZZLETABLE_FB,
            DESCRIPTOR_LOCATION_IMAGE_SWIZZLETABLE_DEPTH,
            DESCRIPTOR_LOCATION_IMAGE_SWIZZLETABLE_TEX,
            DESCRIPTOR_LOCATION_IMAGE_CLUT} :
        /\ b = DESCRIPTOR_LOCATION_IMAGE_SWIZZLETABLE_TEX =>
               caps.hasTexture # 0
        /\ b = DESCRIPTOR_LOCATION_IMAGE_CLUT =>
               caps.hasTexture # 0 /\ IsPsmIDTEX(caps.textureFormat)}

\* C17: in every flush the descriptor set bound was written with exactly the
\* bindings the layout of the pipeline bound with it declares, and these are
\* the memory buffer, the framebuffer and depthbuffer swizzle tables, the
\* texture swizzle table iff the descriptor has a texture, and the CLUT
\* image iff it has a texture of an indexed format; also when the set comes
\* from the cache and was allocated under another capability descriptor.
C17_SetMatchesLayout ==
    \A i \in Positions(env.cmds, "vkCmdBindDescriptorSets") :
        /\ i < Len(env.cmds)
        /\ env.cmds[i + 1].cmd = "vkCmdBindPipeline"
        /\ LET descriptorSet == env.cmds[i].arg
               drawPipeline == env.cmds[i + 1].arg
           IN  /\ descriptorSet.writes = drawPipeline.descriptorSetLayout
               /\ descriptorSet.writes =
                      ExpectedBindings(drawPipeline.handle[1])

\* a draw with a pipeline made in this flush for an indexed texture format
\* and a descriptor set taken from the cache, which was therefore allocated
\* in a flush under another capability descriptor with the same key
C17_Witness ==
    /\ Count(env.cmds, "vkCmdDraw") = 1
    /\ Count(env.cmds, "CreateDrawPipeline") = 1
    /\ Count(env.cmds, "vkAllocateDescriptorSets") = 0
    /\ ArgOf(env.cmds, "vkCmdBindPipeline").handle[1].hasTexture = 1
    /\ ArgOf(env.cmds, "vkCmdBindPipeline").handle[1].textureFormat = PSMT8
    /\ DESCRIPTOR_LOCATION_IMAGE_CLUT \in
           ArgOf(env.cmds, "vkCmdBindDescriptorSets").writes

(***************************************************************************)
(* C16: unsupported capability descriptors.                                *)
(***************************************************************************)
\* the values the case labels of the shader synthesis name, field by field;
\* the texture fields count only when the descriptor has a texture and the
\* blend selectors only when it blends
SupportedFramebufferFormats == {PSMCT32, PSMCT24, PSMCT16, PSMCT16S}

SupportedDepthbufferFormats == {PSMZ32, PSMZ24, PSMZ16, PSMZ16S}

SupportedTextureFormats ==
    {PSMCT32, PSMCT24, PSMCT16, PSMCT16S, PSMT8, PSMT4,
     PSMT8H, PSMT4HL, PSMT4HH}

Supported(caps) ==
    /\ caps.framebufferFormat \in SupportedFramebufferFormats
    /\ caps.depthbufferFormat \in SupportedDepthbufferFormats
    /\ caps.alphaTestFunction \in
           {ALPHA_TEST_ALWAYS, ALPHA_TEST_EQUAL, ALPHA_TEST_GEQUAL}
    /\ caps.depthTestFunction \in
           {DEPTH_TEST_ALWAYS, DEPTH_TEST_NEVER, DEPTH_TEST_GEQUAL,
            DEPTH_TEST_GREATER}
    /\ caps.hasTexture # 0 =>
           /\ caps.textureFormat \in SupportedTextureFormats
           /\ caps.texClampU \in CLAMP_MODE_REPEAT..CLAMP_MODE_REGION_REPEAT
           /\ caps.texClampV \in CLAMP_MODE_REPEAT..CLAMP_MODE_REGION_REPEAT
           /\ caps.textureFunction \in
                  {TEX0_FUNCTION_MODULATE, TEX0_FUNCTION_DECAL,
                   TEX0_FUNCTION_HIGHLIGHT2}
    /\ caps.hasAlphaBlending # 0 =>
           /\ {caps.alphaA, caps.alphaB, caps.alphaD} \subseteq
                  {ALPHABLEND_ABD_CS, ALPHABLEND_ABD_CD, ALPHABLEND_ABD_ZERO}
           /\ caps.alphaC \in
                  {ALPHABLEND_C_AS, ALPHABLEND_C_AD, ALPHABLEND_C_FIX}

\* C16: a capability descriptor holding an unsupported value in a field the
\* shader synthesis branches on gets no shader and no pipeline: every
\* descriptor with a pipeline in the cache is a supported one, and no shader
\* of a cached pipeline was generated past a violated assertion (no branch
\* fell back to the code of another branch).
C16_UnsupportedNeverRegistered ==
    \A caps \in DOMAIN draw.m_pipelineCache :
        /\ Supported(caps)
        /\ FragmentShaderOf(draw.m_pipelineCache[caps]).asserts = {}

(***************************************************************************)
(* C18: the order of the steps of a flush.                                 *)
(***************************************************************************)
\* the names of the commands of a flush in a log, in order: the log of an
\* operation without the vertex copy and the queue submission around it
IsFlushCommand(c) == c.cmd \notin {"memcpy", "vkQueueSubmit"}

FlushNames(log) ==
    LET flush == SelectSeq(log, IsFlushCommand)
    IN  [i \in 1..Len(flush) |-> flush[i].cmd]

PipelineStep(log) ==
    IF Count(log, "CreateDrawPipeline") > 0
    THEN <<"CreateDrawPipeline">> ELSE <<>>

DescriptorSetStep(log) ==
    IF Count(log, "vkAllocateDescriptorSets") > 0
    THEN <<"vkAllocateDescriptorSets", "vkUpdateDescriptorSets">> ELSE <<>>

ViewportStep == <<"vkCmdSetViewport", "vkCmdSetScissor">>

BindSteps ==
    <<"vkCmdBindDescriptorSets", "vkCmdBindPipeline",
      "vkCmdBindVertexBuffers", "vkCmdPushConstants">>

\* C18 as stated: a flush that draws resolves the pipeline, resolves the
\* descriptor set, sets viewport and scissor, begins the render pass, binds,
\* draws and ends the render pass, in this order; the descriptor set is
\* resolved before the render pass begins.
C18_SetResolvedBeforeRenderPass ==
    Count(env.cmds, "vkCmdDraw") > 0 =>
        FlushNames(env.cmds) =
            PipelineStep(env.cmds) \o DescriptorSetStep(env.cmds)
            \o ViewportStep \o <<"vkCmdBeginRenderPass">> \o BindSteps
            \o <<"vkCmdDraw", "vkCmdEndRenderPass">>

\* C18 amended: a flush that draws resolves the pipeline, sets viewport and
\* scissor, begins the render pass, resolves the descriptor set (inside the
\* render pass), binds descriptor set, pipeline, vertex buffer and push
\* constants, draws and ends the render pass, in this order, with one begin
\* and one end around the one draw; an operation that does not draw records
\* no command of a flush; after FlushVertices the batch start cursor is at
\* the end of the batch.
C18_FlushOrder ==
    /\ Count(env.cmds, "vkCmdDraw") > 0 =>
           FlushNames(env.cmds) =
               PipelineStep(env.cmds) \o ViewportStep
               \o <<"vkCmdBeginRenderPass">> \o DescriptorSetStep(env.cmds)
               \o BindSteps \o <<"vkCmdDraw", "vkCmdEndRenderPass">>
    /\ Count(env.cmds, "vkCmdDraw") = 0 => FlushNames(env.cmds) = <<>>
    /\ op.name = "FlushVertices" /\ env.status = "ok" =>
           draw.m_passVertexStart = op.preEnd

\* a flush that creates the pipeline and allocates the descriptor set
C18_Witness ==
    /\ op.name = "FlushVertices"
    /\ Count(env.cmds, "vkCmdDraw") = 1
    /\ Count(env.cmds, "CreateDrawPipeline") = 1
    /\ Count(env.cmds, "vkAllocateDescriptorSets") = 1
    /\ PositionOf(env.cmds, "vkCmdBeginRenderPass")
           < PositionOf(env.cmds, "vkAllocateDescriptorSets")
    /\ draw.m_passVertexStart = op.preEnd
    /\ op.preEnd > op.preStart

(***************************************************************************)
(* C19: what issues a draw, and AddVertices on a run that fits.            *)
(***************************************************************************)
Fits(d, amount) == d.m_passVertexEnd + amount <= MAX_VERTEX_COUNT

\* C19: an operation issues a draw only if it is a setter that changes a
\* value over a pending batch, an AddVertices whose run does not fit, the
\* pre-submission hook (alone or within a frame submission) or
\* FlushVertices; an AddVertices whose run fits records the copy of the run
\* at passVertexEnd in the current frame's storage and nothing else (no
\* draw, no submission, no FlushVertices call), adds amount to
\* passVertexEnd and leaves the committed state, both caches, the current
\* frame and passVertexStart as they are.
C19_FittingAppendOnlyCopies ==
    [][/\ Count(env'.cmds, "vkCmdDraw") > 0 =>
             \/ /\ op'.name \in Setters
                /\ BatchPending(draw)
                /\ GroupValues(draw)[op'.name] # op'.args
             \/ /\ op'.name = "AddVertices"
                /\ ~Fits(draw, op'.args[1])
             \/ op'.name \in {"PreFlushFrameCommandBuffer",
                               "FrameCommandBufferFlush", "FlushVertices"}
       /\ (op'.name = "AddVertices" /\ Fits(draw, op'.args[1])) =>
             /\ env'.cmds =
                    <<Cmd("memcpy", [frame |-> env.currentFrame,
                                     offset |-> draw.m_passVertexEnd,
                                     amount |-> op'.args[1]])>>
             /\ env'.flushCalls = 0
             /\ draw' = [draw EXCEPT !.m_passVertexEnd = @ + op'.args[1]]
             /\ env'.currentFrame = env.currentFrame
             /\ env'.pipelinesCreated = env.pipelinesCreated
             /\ env'.setsAllocated = env.setsAllocated]_vars

\* a run of three vertices appended behind a pending batch of three
C19_Witness ==
    /\ op.name = "AddVertices"
    /\ op.args = <<3>>
    /\ op.preStart = 0
    /\ op.preEnd = 3
    /\ draw.m_passVertexStart = 0
    /\ draw.m_passVertexEnd = 6
    /\ Count(env.cmds, "vkCmdDraw") = 0
    /\ Count(env.cmds, "vkQueueSubmit") = 0
    /\ Count(env.cmds, "memcpy") = 1
    /\ ArgOf(env.cmds, "memcpy").offset = 3

(***************************************************************************)
(* C20: the cursors of the batch.                                          *)
(***************************************************************************)
\* C20: in every reachable state 0 <= passVertexStart <= passVertexEnd <=
\* MAX_VERTEX_COUNT (runs of at most MAX_VERTEX_COUNT vertices, frame
\* submissions that run both hooks); passVertexEnd counts the vertices
\* appended since the last frame boundary: AddVertices adds the length of
\* the run (to zero, when the run forces a frame submission first), the
\* post-submission hook and the frame submission set it to zero, and
\* FlushVertices, the pre-submission hook and the setters leave it as it
\* is, so drawing a batch frees no capacity within the frame.
C20_CursorBounds ==
    /\ [](/\ 0 <= draw.m_passVertexStart
          /\ draw.m_passVertexStart <= draw.m_passVertexEnd
          /\ draw.m_passVertexEnd <= MAX_VERTEX_COUNT)
    /\ [][/\ op'.name = "AddVertices" =>
                draw'.m_passVertexEnd =
                    (IF Fits(draw, op'.args[1])
                     THEN draw.m_passVertexEnd ELSE 0) + op'.args[1]
          /\ op'.name \in {"PostFlushFrameCommandBuffer",
                            "FrameCommandBufferFlush"} =>
                draw'.m_passVertexEnd = 0
          /\ op'.name \in Setters \cup {"FlushVertices",
                                        "PreFlushFrameCommandBuffer"} =>
                draw'.m_passVertexEnd = draw.m_passVertexEnd]_vars

\* a setter has drawn the second batch of a frame: nothing is pending and
\* six of the eight vertices of the storage stay used
C20_Witness ==
    /\ op.name \in Setters
    /\ Count(env.cmds, "vkCmdDraw") = 1
    /\ op.preStart = 3
    /\ op.preEnd = 6
    /\ draw.m_passVertexStart = 6
    /\ draw.m_passVertexEnd = 6

(***************************************************************************)
(* C21: every appended vertex is drawn once.                               *)
(***************************************************************************)
IsPrefix(a, b) == Len(a) <= Len(b) /\ SubSeq(b, 1, Len(a)) = a

\* C21: with the frame hooks called only by frame submissions, the vertices
\* drawn since the last submission are the first of the vertices appended
\* since then, in the order of appending and each once, read from the slot
\* and position they were written to: the appended vertices lie at
\* positions 0 .. passVertexEnd - 1 of the current frame slot and the drawn
\* ones are those at 0 .. passVertexStart - 1; at a submission every vertex
\* appended to the submitted slot has been drawn, the draws together
\* covering [0, passVertexEnd) without gap or overlap; the run of an
\* AddVertices that forced a submission lies at position 0 of the new
\* current slot, which is not the slot just submitted.
C21_EveryVertexDrawnOnce ==
    LET t == op.track
        cur == env.currentFrame
    IN  /\ IsPrefix(t.drawn, t.appended)
        /\ t.appended = Places(cur, 0, draw.m_passVertexEnd)
        /\ t.drawn = Places(cur, 0, draw.m_passVertexStart)
        /\ Len(t.submitted) <= 1
        /\ \A n \in DOMAIN t.submitted :
               /\ t.submitted[n].drawn = t.submitted[n].appended
               /\ t.submitted[n].appended =
                      Places(t.submitted[n].frame, 0, op.preEnd)
               /\ t.submitted[n].frame # cur
        /\ (op.name = "AddVertices" /\ t.submitted # <<>>) =>
               /\ op.preEnd + op.args[1] > MAX_VERTEX_COUNT
               /\ t.appended = Places(cur, 0, op.args[1])

\* a run of six vertices that does not fit behind six appended ones, three
\* of them drawn before: the submission finds all six drawn, and the run is
\* at the start of the other slot
C21_Witness ==
    /\ op.name = "AddVertices"
    /\ op.args = <<6>>
    /\ op.preStart = 3
    /\ op.preEnd = 6
    /\ Len(op.track.submitted) = 1
    /\ op.track.submitted[1].drawn =
           Places(op.track.submitted[1].frame, 0, 6)
    /\ op.track.submitted[1].frame # env.currentFrame
    /\ op.track.appended = Places(env.currentFrame, 0, 6)
    /\ op.track.drawn = <<>>

(***************************************************************************)
(* C22: the alpha test and the writes.                                     *)
(***************************************************************************)
\* the invocation of fragment i had its alpha test passed whatever the alpha
\* and the reference: the program of the same capability descriptor with
\* the alpha test function 'always', run on the same input, push constants
\* and texture, from the memory fragment i found
WithAlphaTestPassed(i) ==
    RunFragment(
        CreateFragmentShader(
            [gpu.caps EXCEPT !.alphaTestFunction = ALPHA_TEST_ALWAYS]).code,
        NewFragment(gpu.frags[i].input, gpu.leftover),
        gpu.consts, gpu.tex, InOrder(i - 1))

\* C22: the outcome of the alpha test has no part in what a fragment
\* commits: whether its alpha test passed or failed, a fragment makes the
\* accesses to the framebuffer and to the depthbuffer, with the values read
\* and written, that it makes when the alpha test passes, and a write is
\* made exactly when the depth test passed (the depth write also needing
\* the write-depth flag).
C22_AlphaTestDoesNotGate ==
    \A i \in DOMAIN gpu.frags :
        Past(i, "EndInvocationInterlock") =>
            LET f == gpu.frags[i]
                passed == WithAlphaTestPassed(i).f
            IN  /\ passed.alphaTestResult
                /\ f.accesses = passed.accesses
                /\ f.depthTestResult = passed.depthTestResult
                /\ (AccessesOf(f, "WriteToFramebuffer") # {})
                       = f.depthTestResult
                /\ (AccessesOf(f, "WriteToDepthbuffer") # {})
                       = (f.depthTestResult /\ gpu.caps.writeDepth # 0)

\* 'equal' with reference 128 under the depth test 'always': the first
\* fragment, of alpha 127/255, failed the alpha test and wrote its colour
\* and its depth
C22_Witness ==
    /\ gpu.frags # <<>>
    /\ AllDone
    /\ gpu.caps.alphaTestFunction = ALPHA_TEST_EQUAL
    /\ gpu.caps.depthTestFunction = DEPTH_TEST_ALWAYS
    /\ gpu.consts.alphaRef = 128
    /\ Quantized(gpu.frags[1].textureColor[4]) = 127
    /\ ~gpu.frags[1].alphaTestResult
    /\ AccessesOf(gpu.frags[1], "WriteToFramebuffer") # {}
    /\ AccessesOf(gpu.frags[1], "WriteToDepthbuffer") # {}
    /\ AccessOf(gpu.frags[1], "WriteToFramebuffer").after # DrawMemory.fb

====
